---------------------------- MODULE Spec2Model ----------------------------
(***************************************************************************)
(* Chronicles of a Drifter - reflection registry, flat reflection API and  *)
(* JSON serializer (src/src/Engine/Reflection.h, ReflectionAPI.cpp,        *)
(* Serialization.h).                                                       *)
(*                                                                         *)
(* Text is modelled as sequences of one-character strings, instance memory *)
(* as little-endian bytes, so that formatting, escaping and the raw        *)
(* offset-based field access are computed rather than assumed.             *)
(***************************************************************************)
EXTENDS Integers, Sequences, FiniteSets, TLC

\* ------------------------------------------------------------------ bounds
\* Longest field list a TypeRegistrar chain declares.
MaxFields == 2
\* Length of the caller-supplied output buffer.
BufLen == 3

\* ------------------------------------------------------------- characters
NUL == "NUL"
LF == "\n"
CR == "\r"
TAB == "\t"
QUOTE == "\""
BSLASH == "\\"

\* Byte order of the characters used in names (std::string compares bytes).
CharOrder ==
  <<"G", "O", "P", "T", "V", "a", "b", "c", "d", "e", "f", "i", "j", "l", "m", "n",
    "o", "r", "s", "t", "u", "v", "x", "y">>

CharCode(c) == CHOOSE k \in 1..Len(CharOrder) : CharOrder[k] = c

RECURSIVE StrLess(_, _)
\* std::string operator< : lexicographic byte comparison
StrLess(a, b) ==
  IF b = <<>> THEN FALSE
  ELSE IF a = <<>> THEN TRUE
  ELSE IF Head(a) = Head(b) THEN StrLess(Tail(a), Tail(b))
  ELSE CharCode(Head(a)) < CharCode(Head(b))

\* ------------------------------------------------------------ PropertyType
PropertyType ==
  <<"Bool", "Int", "Float", "Double", "String", "Vector2", "Vector3", "Color", "Custom">>

\* static_cast<int>(PropertyType)
KindOrdinal(k) == (CHOOSE n \in 1..Len(PropertyType) : PropertyType[n] = k) - 1

\* ------------------------------------------------------- client structures
\* The structures that are reflected.  Transform and GameObject are the ones
\* of ReflectionExample.cpp, Point is the structure of the serializer
\* scenario, Volume carries the kinds the others lack.  The layout is the
\* one of an LP64 build (sizeof(std::string) = 32).
sPoint == <<"P", "o", "i", "n", "t">>
sGameObject == <<"G", "a", "m", "e", "O", "b", "j", "e", "c", "t">>
sVolume == <<"V", "o", "l", "u", "m", "e">>
sTransform == <<"T", "r", "a", "n", "s", "f", "o", "r", "m">>
sGone == <<"G", "o", "n", "e">>

\* The structures the live instance can be an object of.
HostNames == {sPoint, sGameObject, sVolume}

Host(h) ==
  CASE h = sPoint ->
         [size |-> 8,
          members |-> << [name |-> <<"x">>, kind |-> "Float", offset |-> 0],
                         [name |-> <<"y">>, kind |-> "Float", offset |-> 4] >>]
    [] h = sGameObject ->
         [size |-> 56,
          members |-> << [name |-> <<"n", "a", "m", "e">>, kind |-> "String", offset |-> 0],
                         [name |-> <<"i", "d">>, kind |-> "Int", offset |-> 32],
                         [name |-> <<"a", "c", "t", "i", "v", "e">>, kind |-> "Bool",
                          offset |-> 36] >>]
    [] h = sVolume ->
         [size |-> 16,
          members |-> << [name |-> <<"m">>, kind |-> "Double", offset |-> 0],
                         [name |-> <<"v">>, kind |-> "Vector2", offset |-> 8] >>]
    [] h = sTransform ->
         [size |-> 16,
          members |-> << [name |-> <<"x">>, kind |-> "Float", offset |-> 0],
                         [name |-> <<"y">>, kind |-> "Float", offset |-> 4],
                         [name |-> <<"r", "o", "t", "a", "t", "i", "o", "n">>,
                          kind |-> "Float", offset |-> 8],
                         [name |-> <<"s", "c", "a", "l", "e">>, kind |-> "Float",
                          offset |-> 12] >>]

\* The names looked up; sGone is never registered.
LookupNames == HostNames \cup {sTransform, sGone}

\* ------------------------------------------------------ FieldInfo, TypeInfo
\* FieldInfo(name, type, offset)
FieldInfo(name, type, offset) == [m_name |-> name, m_type |-> type, m_offset |-> offset]

\* TypeInfo(name, size)
TypeInfo(name, size) == [m_name |-> name, m_size |-> size, m_fields |-> <<>>]

\* TypeInfo::AddField : emplace_back, no check of the name
AddField(typeInfo, name, type, offset) ==
  [typeInfo EXCEPT !.m_fields = Append(@, FieldInfo(name, type, offset))]

NoField == [none |-> TRUE]
NoType == [none |-> TRUE]

RECURSIVE FindField(_, _)
FindField(fields, name) ==
  IF fields = <<>> THEN NoField
  ELSE IF Head(fields).m_name = name THEN Head(fields)
  ELSE FindField(Tail(fields), name)

\* TypeInfo::GetField : the first field with that name, or nullptr
GetField(typeInfo, name) == FindField(typeInfo.m_fields, name)

VARIABLES
  m_types,   \* ReflectionRegistry::m_types : name -> TypeInfo
  host,      \* the client structure the live instance is an object of
  mem,       \* the bytes of the live instance
  strs,      \* the std::string members of the live instance, by offset
  server,    \* the IPCServer of the process, if it created one
  client,    \* the IPCClient of the process, if it created one
  files,     \* the files of the process, by path
  last       \* the last call: its arguments, its result, its output buffer

vars == <<m_types, host, mem, strs, server, client, files, last>>

\* ------------------------------------------------------ ReflectionRegistry
\* A registry that keeps the first descriptor of a name (std::map::emplace).
RegisterType_KeepFirst(types, name, typeInfo) ==
  [n \in (DOMAIN types) \cup {name} |-> IF n \in DOMAIN types THEN types[n] ELSE typeInfo]

\* A registry that forgets the other names when one is registered.
RegisterType_Forget(types, name, typeInfo) == [n \in {name} |-> typeInfo]

\* ReflectionRegistry::RegisterType : m_types[name] = typeInfo
RegisterType(types, name, typeInfo) ==
  [n \in (DOMAIN types) \cup {name} |-> IF n = name THEN typeInfo ELSE types[n]]

\* ReflectionRegistry::GetType on the map `types`: find, then second or nullptr
Find(types, name) == IF name \in DOMAIN types THEN types[name] ELSE NoType

\* ReflectionRegistry::GetType
GetType(name) == Find(m_types, name)

RECURSIVE SortedNames(_)
SortedNames(S) ==
  IF S = {} THEN <<>>
  ELSE LET least == CHOOSE n \in S : \A o \in S \ {n} : StrLess(n, o)
       IN <<least>> \o SortedNames(S \ {least})

\* the keys of the map `types` in iteration order
Keys(types) == SortedNames(DOMAIN types)

\* the enumeration giving the first name at every position
GetAllTypeNames_FirstEverywhere ==
  [i \in 1..Len(Keys(m_types)) |-> Keys(m_types)[1]]

\* ReflectionRegistry::GetAllTypeNames : std::map iterates in key order
GetAllTypeNames == Keys(m_types)


\* ------------------------------------------------------------- TypeRegistrar
\* What a .Field(name, &T::member, type) call of a registrar chain can name:
\* a member of the structure, under its own name and with the kind of its
\* type.  A chain may name the same member more than once.
Decls(h) ==
  LET ms == Host(h).members
  IN { [name |-> ms[k].name, kind |-> ms[k].kind, offset |-> ms[k].offset] : k \in 1..Len(ms) }

FieldLists(h) == UNION { [1..n -> Decls(h)] : n \in 0..MaxFields }

\* The registrar chains of the program: any chain for the structure of the
\* live instance, the chain of ReflectionExample.cpp for Transform.
RegistrarChains(h) == IF h = sTransform THEN { Host(h).members } ELSE FieldLists(h)

RECURSIVE AddFields(_, _)
\* TypeRegistrar::Field, once per element of the chain
AddFields(typeInfo, decls) ==
  IF decls = <<>> THEN typeInfo
  ELSE AddFields(AddField(typeInfo, Head(decls).name, Head(decls).kind, Head(decls).offset),
                 Tail(decls))

\* TypeRegistrar<T>(name) ... ~TypeRegistrar : the TypeInfo the chain builds
Registrar(name, h, decls) == AddFields(TypeInfo(name, Host(h).size), decls)

\* ------------------------------------------------------------ value access
Pow256(k) == CASE k = 0 -> 1 [] k = 1 -> 256 [] k = 2 -> 65536 [] k = 3 -> 16777216

\* object representation of a 32-bit int (little endian, two's complement)
IntBytes(v) == [k \in 1..4 |-> (v \div Pow256(k - 1)) % 256]

BytesInt(b) ==
  b[1] + 256 * b[2] + 65536 * b[3] + 16777216 * (IF b[4] >= 128 THEN b[4] - 256 ELSE b[4])

BoolBytes(v) == IF v THEN <<1>> ELSE <<0>>

BytesBool(b) == b[1] # 0

\* FieldInfo::GetValue<T> : the sizeof(T) bytes at instance + m_offset
GetValue(field, instance, size) == [k \in 1..size |-> instance[field.m_offset + k - 1]]

\* A store of the wrong width: only the first byte of the value is assigned.
SetValue_OneByte(field, instance, bytes) ==
  [a \in DOMAIN instance |-> IF a = field.m_offset THEN bytes[1] ELSE instance[a]]

\* FieldInfo::SetValue<T> : assigns the sizeof(T) bytes at instance + m_offset
SetValue(field, instance, bytes) ==
  [a \in DOMAIN instance |->
     IF a >= field.m_offset /\ a < field.m_offset + Len(bytes)
     THEN bytes[a - field.m_offset + 1]
     ELSE instance[a]]

\* ------------------------------------------------------------------ inputs
Ptr(v) == [null |-> FALSE, val |-> v]
NullPtr == [null |-> TRUE, val |-> <<>>]

\* IEEE-754 single precision object representations
F0 == <<0, 0, 0, 0>>           \* 0.0f
F1 == <<0, 0, 128, 63>>        \* 1.0f
F10 == <<0, 0, 32, 65>>        \* 10.0f
F20 == <<0, 0, 160, 65>>       \* 20.0f
FNegTiny == <<0, 0, 192, 186>> \* -0.00146484375f
FInf == <<0, 0, 128, 127>>     \* +infinity
FloatValues == {F10, F20, FNegTiny, FInf}

\* IEEE-754 double precision object representations
D1_5 == <<0, 0, 0, 0, 0, 0, 248, 63>>    \* 1.5
DNeg2 == <<0, 0, 0, 0, 0, 0, 0, 192>>    \* -2.0
DSmall == <<0, 0, 0, 0, 0, 0, 144, 63>>  \* 0.015625
DoubleValues == {D1_5, DNeg2, DSmall}

IntValues == {-300, 1025}

StringValues == { <<QUOTE, BSLASH>>, <<LF, CR, TAB, "b">> }

\* The field names asked for on the live instance; "j" is declared nowhere.
FieldNames(h) == { d.name : d \in Decls(h) } \cup { <<"j">> }

\* --------------------------------------------------- flat API: type queries
\* Reflection_GetTypeCount
Reflection_GetTypeCount == Len(GetAllTypeNames)

\* std::strncpy(dst, src, n) : min(n, strlen) characters, then NUL padding
Strncpy(dst, src, n) ==
  [k \in 1..Len(dst) |->
     IF k <= n THEN (IF k <= Len(src) THEN src[k] ELSE NUL) ELSE dst[k]]

\* a response buffer with room for the text and its terminator
Room(text) == [k \in 1..(Len(text) + 1) |-> "#"]

\* strncpy(buffer, s, bufferSize - 1); buffer[bufferSize - 1] = '\0'
CopyOut(buffer, s, bufferSize) ==
  [Strncpy(buffer, s, bufferSize - 1) EXCEPT ![bufferSize] = NUL]

\* buffer[0] = '\0'
ClearOut(buffer) == [buffer EXCEPT ![1] = NUL]

\* Reflection_GetTypeName(index, buffer, bufferSize) : the buffer afterwards
Reflection_GetTypeName(index, buffer, bufferSize) ==
  IF buffer.null \/ bufferSize <= 0 THEN buffer.val
  ELSE LET names == GetAllTypeNames
       IN IF index >= 0 /\ index < Len(names)
          THEN CopyOut(buffer.val, names[index + 1], bufferSize)
          ELSE ClearOut(buffer.val)

\* Reflection_GetTypeSize(typeName)
Reflection_GetTypeSize(typeName) ==
  IF typeName.null THEN 0
  ELSE LET typeInfo == GetType(typeName.val)
       IN IF typeInfo # NoType THEN typeInfo.m_size ELSE 0

\* Reflection_GetFieldCount(typeName)
Reflection_GetFieldCount(typeName) ==
  IF typeName.null THEN 0
  ELSE LET typeInfo == GetType(typeName.val)
       IN IF typeInfo # NoType THEN Len(typeInfo.m_fields) ELSE 0

\* -------------------------------------------------- flat API: field queries
\* Reflection_GetFieldName(typeName, fieldIndex, buffer, bufferSize)
Reflection_GetFieldName(typeName, fieldIndex, buffer, bufferSize) ==
  IF typeName.null \/ buffer.null \/ bufferSize <= 0 THEN buffer.val
  ELSE LET typeInfo == GetType(typeName.val)
       IN IF typeInfo # NoType /\ fieldIndex >= 0 /\ fieldIndex < Len(typeInfo.m_fields)
          THEN CopyOut(buffer.val, typeInfo.m_fields[fieldIndex + 1].m_name, bufferSize)
          ELSE ClearOut(buffer.val)

\* Reflection_GetFieldType(typeName, fieldName)
Reflection_GetFieldType(typeName, fieldName) ==
  IF typeName.null \/ fieldName.null THEN -1
  ELSE LET typeInfo == GetType(typeName.val)
       IN IF typeInfo = NoType THEN -1
          ELSE LET field == GetField(typeInfo, fieldName.val)
               IN IF field # NoField THEN KindOrdinal(field.m_type) ELSE -1

\* A field query that reports a missing field as offset 0.
Reflection_GetFieldOffset_Zero(typeName, fieldName) ==
  IF typeName.null \/ fieldName.null THEN -1
  ELSE LET typeInfo == GetType(typeName.val)
       IN IF typeInfo = NoType THEN -1
          ELSE LET field == GetField(typeInfo, fieldName.val)
               IN IF field # NoField THEN field.m_offset ELSE 0

\* Reflection_GetFieldOffset(typeName, fieldName)
Reflection_GetFieldOffset(typeName, fieldName) ==
  IF typeName.null \/ fieldName.null THEN -1
  ELSE LET typeInfo == GetType(typeName.val)
       IN IF typeInfo = NoType THEN -1
          ELSE LET field == GetField(typeInfo, fieldName.val)
               IN IF field # NoField THEN field.m_offset ELSE -1

\* --------------------------------------------------- flat API: value access
\* Reflection_GetFloatValue : the object representation of the float returned
Reflection_GetFloatValue(typeName, fieldName, instance) ==
  IF typeName.null \/ fieldName.null \/ instance.null THEN F0
  ELSE LET typeInfo == GetType(typeName.val)
       IN IF typeInfo = NoType THEN F0
          ELSE LET field == GetField(typeInfo, fieldName.val)
               IN IF field = NoField \/ field.m_type # "Float" THEN F0
                  ELSE GetValue(field, instance.bytes, 4)

\* Reflection_SetFloatValue that stores the value as an object twice the width
Reflection_SetFloatValue_Wide(typeName, fieldName, instance, value) ==
  IF typeName.null \/ fieldName.null \/ instance.null THEN instance.bytes
  ELSE LET typeInfo == GetType(typeName.val)
       IN IF typeInfo = NoType THEN instance.bytes
          ELSE LET field == GetField(typeInfo, fieldName.val)
               IN IF field = NoField \/ field.m_type # "Float" THEN instance.bytes
                  ELSE SetValue(field, instance.bytes, value \o value)

\* Reflection_SetFloatValue : the bytes of the instance afterwards
Reflection_SetFloatValue(typeName, fieldName, instance, value) ==
  IF typeName.null \/ fieldName.null \/ instance.null THEN instance.bytes
  ELSE LET typeInfo == GetType(typeName.val)
       IN IF typeInfo = NoType THEN instance.bytes
          ELSE LET field == GetField(typeInfo, fieldName.val)
               IN IF field = NoField \/ field.m_type # "Float" THEN instance.bytes
                  ELSE SetValue(field, instance.bytes, value)

\* An int getter that does not compare the kind of the field.
Reflection_GetIntValue_AnyKind(typeName, fieldName, instance) ==
  IF typeName.null \/ fieldName.null \/ instance.null THEN 0
  ELSE LET typeInfo == GetType(typeName.val)
       IN IF typeInfo = NoType THEN 0
          ELSE LET field == GetField(typeInfo, fieldName.val)
               IN IF field = NoField THEN 0
                  ELSE BytesInt(GetValue(field, instance.bytes, 4))

\* Reflection_GetIntValue
Reflection_GetIntValue(typeName, fieldName, instance) ==
  IF typeName.null \/ fieldName.null \/ instance.null THEN 0
  ELSE LET typeInfo == GetType(typeName.val)
       IN IF typeInfo = NoType THEN 0
          ELSE LET field == GetField(typeInfo, fieldName.val)
               IN IF field = NoField \/ field.m_type # "Int" THEN 0
                  ELSE BytesInt(GetValue(field, instance.bytes, 4))

\* Reflection_SetIntValue : the bytes of the instance afterwards
Reflection_SetIntValue(typeName, fieldName, instance, value) ==
  IF typeName.null \/ fieldName.null \/ instance.null THEN instance.bytes
  ELSE LET typeInfo == GetType(typeName.val)
       IN IF typeInfo = NoType THEN instance.bytes
          ELSE LET field == GetField(typeInfo, fieldName.val)
               IN IF field = NoField \/ field.m_type # "Int" THEN instance.bytes
                  ELSE SetValue(field, instance.bytes, IntBytes(value))

\* Reflection_GetBoolValue
Reflection_GetBoolValue(typeName, fieldName, instance) ==
  IF typeName.null \/ fieldName.null \/ instance.null THEN FALSE
  ELSE LET typeInfo == GetType(typeName.val)
       IN IF typeInfo = NoType THEN FALSE
          ELSE LET field == GetField(typeInfo, fieldName.val)
               IN IF field = NoField \/ field.m_type # "Bool" THEN FALSE
                  ELSE BytesBool(GetValue(field, instance.bytes, 1))

\* Reflection_SetBoolValue : the bytes of the instance afterwards
Reflection_SetBoolValue(typeName, fieldName, instance, value) ==
  IF typeName.null \/ fieldName.null \/ instance.null THEN instance.bytes
  ELSE LET typeInfo == GetType(typeName.val)
       IN IF typeInfo = NoType THEN instance.bytes
          ELSE LET field == GetField(typeInfo, fieldName.val)
               IN IF field = NoField \/ field.m_type # "Bool" THEN instance.bytes
                  ELSE SetValue(field, instance.bytes, BoolBytes(value))

\* Reflection_GetStringValue : the buffer afterwards
Reflection_GetStringValue(typeName, fieldName, instance, buffer, bufferSize) ==
  IF typeName.null \/ fieldName.null \/ instance.null \/ buffer.null \/ bufferSize <= 0
  THEN buffer.val
  ELSE LET typeInfo == GetType(typeName.val)
       IN IF typeInfo = NoType THEN ClearOut(buffer.val)
          ELSE LET field == GetField(typeInfo, fieldName.val)
               IN IF field = NoField \/ field.m_type # "String" THEN ClearOut(buffer.val)
                  ELSE CopyOut(buffer.val, instance.strs[field.m_offset], bufferSize)

\* Reflection_SetStringValue : the std::string members of the instance afterwards
Reflection_SetStringValue(typeName, fieldName, instance, value) ==
  IF typeName.null \/ fieldName.null \/ instance.null \/ value.null THEN instance.strs
  ELSE LET typeInfo == GetType(typeName.val)
       IN IF typeInfo = NoType THEN instance.strs
          ELSE LET field == GetField(typeInfo, fieldName.val)
               IN IF field = NoField \/ field.m_type # "String" THEN instance.strs
                  ELSE [instance.strs EXCEPT ![field.m_offset] = value.val]

\* -------------------------------------------------------- number formatting
Digits == <<"0", "1", "2", "3", "4", "5", "6", "7", "8", "9">>

RECURSIVE Dec(_)
\* decimal digits of a natural number
Dec(n) == IF n < 10 THEN <<Digits[n + 1]>> ELSE Dec(n \div 10) \o <<Digits[(n % 10) + 1]>>

\* operator<<(int)
IntText(v) == IF v < 0 THEN <<"-">> \o Dec(0 - v) ELSE Dec(v)

RECURSIVE Pow2(_)
Pow2(k) == IF k = 0 THEN 1 ELSE 2 * Pow2(k - 1)

RECURSIVE Pad6(_)
\* the digits after the decimal point, zero-filled to six
Pad6(d) == IF Len(d) >= 6 THEN d ELSE Pad6(<<"0">> \o d)

RECURSIVE Fixed6(_, _, _)
\* std::fixed << std::setprecision(6) of the finite value (-1)^neg * sig * 2^e,
\* rounded to nearest, ties to even.  The values of the model keep every
\* intermediate product below 2^31.
Fixed6(neg, sig, e) ==
  IF sig # 0 /\ sig % 2 = 0 THEN Fixed6(neg, sig \div 2, e + 1)
  ELSE LET q == IF e < 0 THEN Pow2(0 - e) ELSE 1
           whole == IF e < 0 THEN sig \div q ELSE sig * Pow2(e)
           scaled == IF e < 0 THEN (sig % q) * 1000000 ELSE 0
           down == scaled \div q
           rest == scaled % q
           up == (2 * rest > q) \/ (2 * rest = q /\ down % 2 = 1)
           frac == IF up THEN down + 1 ELSE down
           ip == IF frac = 1000000 THEN whole + 1 ELSE whole
           fp == IF frac = 1000000 THEN 0 ELSE frac
       IN (IF neg THEN <<"-">> ELSE <<>>) \o Dec(ip) \o <<".">> \o Pad6(Dec(fp))

\* what operator<< prints for a non-finite value
NonFinite(neg, isNan) ==
  (IF neg THEN <<"-">> ELSE <<>>) \o (IF isNan THEN <<"n", "a", "n">> ELSE <<"i", "n", "f">>)

\* m_ss << std::fixed << std::setprecision(6) << value, value a float
FloatText(b) ==
  LET neg == b[4] >= 128
      ex == (b[4] % 128) * 2 + (b[3] \div 128)
      man == (b[3] % 128) * 65536 + b[2] * 256 + b[1]
  IN IF ex = 255 THEN NonFinite(neg, man # 0)
     ELSE IF ex = 0 THEN Fixed6(neg, 0, 0)
     ELSE Fixed6(neg, 8388608 + man, ex - 150)

\* m_ss << std::fixed << std::setprecision(6) << value, value a double whose
\* low 32 mantissa bits are zero
DoubleText(b) ==
  LET neg == b[8] >= 128
      ex == (b[8] % 128) * 16 + (b[7] \div 16)
      man == (b[7] % 16) * 65536 + b[6] * 256 + b[5]
  IN IF ex = 2047 THEN NonFinite(neg, man # 0 \/ b[1] + b[2] + b[3] + b[4] # 0)
     ELSE IF ex = 0 THEN Fixed6(neg, 0, 0)
     ELSE Fixed6(neg, 1048576 + man, ex - 1043)

\* --------------------------------------------------------------- JsonWriter
\* JsonWriter()
JsonWriter == [m_ss |-> <<>>, m_indent |-> 0]

RECURSIVE Spaces(_)
Spaces(n) == IF n <= 0 THEN <<>> ELSE <<" ", " ">> \o Spaces(n - 1)

\* JsonWriter::WriteIndent
WriteIndent(w) == [w EXCEPT !.m_ss = @ \o Spaces(w.m_indent)]

\* JsonWriter::BeginObject
BeginObject(w) == [m_ss |-> w.m_ss \o <<"{", LF>>, m_indent |-> w.m_indent + 1]

\* JsonWriter::EndObject
EndObject(w) ==
  LET d == WriteIndent([w EXCEPT !.m_indent = @ - 1])
  IN [d EXCEPT !.m_ss = @ \o <<"}">>]

\* the switch of EscapeString without its '\r' case
EscapeChar_NoCR(c) ==
  CASE c = QUOTE -> <<BSLASH, QUOTE>>
    [] c = BSLASH -> <<BSLASH, BSLASH>>
    [] c = LF -> <<BSLASH, "n">>
    [] c = TAB -> <<BSLASH, "t">>
    [] OTHER -> <<c>>

\* the switch of JsonWriter::EscapeString on one character
EscapeChar(c) ==
  CASE c = QUOTE -> <<BSLASH, QUOTE>>
    [] c = BSLASH -> <<BSLASH, BSLASH>>
    [] c = LF -> <<BSLASH, "n">>
    [] c = CR -> <<BSLASH, "r">>
    [] c = TAB -> <<BSLASH, "t">>
    [] OTHER -> <<c>>

RECURSIVE EscapeString(_)
\* JsonWriter::EscapeString
EscapeString(str) ==
  IF str = <<>> THEN <<>> ELSE EscapeChar(Head(str)) \o EscapeString(Tail(str))

\* the part every WriteField overload shares: indent, "key": text [,] \n
WriteText(w, key, text, comma) ==
  LET i == WriteIndent(w)
  IN [i EXCEPT !.m_ss = @ \o <<QUOTE>> \o key \o <<QUOTE, ":", " ">> \o text
                          \o (IF comma THEN <<",">> ELSE <<>>) \o <<LF>>]

\* JsonWriter::WriteField(key, bool, comma)
WriteFieldBool(w, key, value, comma) ==
  WriteText(w, key, IF value THEN <<"t", "r", "u", "e">> ELSE <<"f", "a", "l", "s", "e">>, comma)

\* JsonWriter::WriteField(key, int, comma)
WriteFieldInt(w, key, value, comma) == WriteText(w, key, IntText(value), comma)

\* JsonWriter::WriteField(key, float, comma)
WriteFieldFloat(w, key, value, comma) == WriteText(w, key, FloatText(value), comma)

\* JsonWriter::WriteField(key, double, comma)
WriteFieldDouble(w, key, value, comma) == WriteText(w, key, DoubleText(value), comma)

\* JsonWriter::WriteField(key, const std::string&, comma)
WriteFieldString(w, key, value, comma) ==
  WriteText(w, key, <<QUOTE>> \o EscapeString(value) \o <<QUOTE>>, comma)

\* ---------------------------------------------------------- SerializeObject
\* the switch without its Double case
SerializeField_NoDouble(w, field, isLast, instance) ==
  CASE field.m_type = "Bool" ->
         WriteFieldBool(w, field.m_name, BytesBool(GetValue(field, instance.bytes, 1)), ~isLast)
    [] field.m_type = "Int" ->
         WriteFieldInt(w, field.m_name, BytesInt(GetValue(field, instance.bytes, 4)), ~isLast)
    [] field.m_type = "Float" ->
         WriteFieldFloat(w, field.m_name, GetValue(field, instance.bytes, 4), ~isLast)
    [] field.m_type = "String" ->
         WriteFieldString(w, field.m_name, instance.strs[field.m_offset], ~isLast)
    [] OTHER -> w

\* one iteration of the loop over the fields: the switch on field.GetType()
SerializeField(w, field, isLast, instance) ==
  CASE field.m_type = "Bool" ->
         WriteFieldBool(w, field.m_name, BytesBool(GetValue(field, instance.bytes, 1)), ~isLast)
    [] field.m_type = "Int" ->
         WriteFieldInt(w, field.m_name, BytesInt(GetValue(field, instance.bytes, 4)), ~isLast)
    [] field.m_type = "Float" ->
         WriteFieldFloat(w, field.m_name, GetValue(field, instance.bytes, 4), ~isLast)
    [] field.m_type = "Double" ->
         WriteFieldDouble(w, field.m_name, GetValue(field, instance.bytes, 8), ~isLast)
    [] field.m_type = "String" ->
         WriteFieldString(w, field.m_name, instance.strs[field.m_offset], ~isLast)
    [] OTHER -> w

RECURSIVE SerializeFields(_, _, _, _)
\* for (size_t i = 0; i < fields.size(); i++), i counted from 1 here
SerializeFields(w, fields, i, instance) ==
  IF i > Len(fields) THEN w
  ELSE SerializeFields(SerializeField(w, fields[i], i = Len(fields), instance),
                       fields, i + 1, instance)

\* SerializeObject without the early return: an unknown type or a null
\* instance yields an object with no member
SerializeObject_NoEarlyReturn(typeName, instance) ==
  LET typeInfo == GetType(typeName)
  IN IF typeInfo = NoType \/ instance.null THEN EndObject(BeginObject(JsonWriter)).m_ss
     ELSE EndObject(SerializeFields(BeginObject(JsonWriter), typeInfo.m_fields, 1,
                                    instance)).m_ss

\* SerializeObject(typeName, instance)
SerializeObject(typeName, instance) ==
  LET typeInfo == GetType(typeName)
  IN IF typeInfo = NoType \/ instance.null THEN <<"{", "}">>
     ELSE EndObject(SerializeFields(BeginObject(JsonWriter), typeInfo.m_fields, 1,
                                    instance)).m_ss

\* ---------------------------------------------------------------- IPC text
\* "error"
sError == <<"e", "r", "r", "o", "r">>

\* the literal {"error":"<message>"}
ErrorObject(message) ==
  <<"{", QUOTE>> \o sError \o <<QUOTE, ":", QUOTE>> \o message \o <<QUOTE, "}">>

ErrInvalidRequest ==
  ErrorObject(<<"I", "n", "v", "a", "l", "i", "d", " ", "r", "e", "q", "u", "e", "s", "t">>)

ErrTypeNotFound ==
  ErrorObject(<<"T", "y", "p", "e", " ", "n", "o", "t", " ", "f", "o", "u", "n", "d">>)

ErrUnknownMessageType ==
  ErrorObject(<<"U", "n", "k", "n", "o", "w", "n", " ", "m", "e", "s", "s", "a", "g", "e", " ",
                "t", "y", "p", "e">>)

ErrNotConnected ==
  ErrorObject(<<"N", "o", "t", " ", "c", "o", "n", "n", "e", "c", "t", "e", "d">>)

ErrNotImplemented ==
  ErrorObject(<<"N", "o", "t", " ", "i", "m", "p", "l", "e", "m", "e", "n", "t", "e", "d">>)

\* the default pipe name of Start, Connect and of the C API
sChroniclesEngine ==
  <<"C", "h", "r", "o", "n", "i", "c", "l", "e", "s", "E", "n", "g", "i", "n", "e">>

\* std::string::npos.  A size_t is kept as its residue modulo 2^64, the
\* residue 2^64 - 1 written -1, so that npos + 3 = 2 as in the build.
Npos == 0 - 1

\* std::string::find(pat, pos), positions counted from 0
StrFind(str, pat, pos) ==
  LET hits == { i \in 0..(Len(str) - Len(pat)) :
                  i >= pos /\ SubSeq(str, i + 1, i + Len(pat)) = pat }
  IN IF pos = Npos \/ hits = {} THEN Npos
     ELSE CHOOSE i \in hits : \A o \in hits : i <= o

\* std::string::substr(pos, count), pos <= size
Substr(str, pos, count) == SubSeq(str, pos + 1, pos + count)

\* ------------------------------------------------------------- MessageType
MessageType ==
  <<"GetTypes", "GetTypeInfo", "GetSceneObjects", "GetObjectProperties", "SetProperty",
    "CreateObject", "DeleteObject", "LoadScene", "SaveScene", "Response", "Error",
    "ObjectSelected", "ObjectModified", "SceneChanged">>

\* struct Message
Message(type, payload, requestId) ==
  [type |-> type, payload |-> payload, requestId |-> requestId]

RECURSIVE QuotedList_LeadingComma(_, _)
\* the loop writing its separator before every element, the first included
QuotedList_LeadingComma(types, i) ==
  IF i > Len(types) THEN <<>>
  ELSE <<",">> \o <<QUOTE>> \o types[i] \o <<QUOTE>> \o QuotedList_LeadingComma(types, i + 1)

\* --------------------------------------------------------------- IPCServer
RECURSIVE QuotedList(_, _)
\* the loop of the GetTypes handler from element i on (i counted from 1)
QuotedList(types, i) ==
  IF i > Len(types) THEN <<>>
  ELSE (IF i > 1 THEN <<",">> ELSE <<>>) \o <<QUOTE>> \o types[i] \o <<QUOTE>>
       \o QuotedList(types, i + 1)

\* the GetTypes handler of InitializeDefaultHandlers
GetTypesHandler(payload) == <<"[">> \o QuotedList(GetAllTypeNames, 1) \o <<"]">>

RECURSIVE FieldEntries_OrdinalFromOne(_, _)
\* the loop writing the kinds numbered from 1
FieldEntries_OrdinalFromOne(fields, i) ==
  IF i > Len(fields) THEN <<>>
  ELSE (IF i > 1 THEN <<",">> ELSE <<>>)
       \o <<"{", QUOTE, "n", "a", "m", "e", QUOTE, ":", QUOTE>> \o fields[i].m_name
       \o <<QUOTE, ",">>
       \o <<QUOTE, "t", "y", "p", "e", QUOTE, ":">>
       \o IntText(KindOrdinal(fields[i].m_type) + 1)
       \o <<"}">>
       \o FieldEntries_OrdinalFromOne(fields, i + 1)

RECURSIVE FieldEntries(_, _)
\* the loop of the GetTypeInfo handler over the fields from field i on
FieldEntries(fields, i) ==
  IF i > Len(fields) THEN <<>>
  ELSE (IF i > 1 THEN <<",">> ELSE <<>>)
       \o <<"{", QUOTE, "n", "a", "m", "e", QUOTE, ":", QUOTE>> \o fields[i].m_name
       \o <<QUOTE, ",">>
       \o <<QUOTE, "t", "y", "p", "e", QUOTE, ":">> \o IntText(KindOrdinal(fields[i].m_type))
       \o <<"}">>
       \o FieldEntries(fields, i + 1)

\* what the GetTypeInfo handler writes for a type it found
TypeInfoText(typeInfo) ==
  <<"{">>
  \o <<QUOTE, "n", "a", "m", "e", QUOTE, ":", QUOTE>> \o typeInfo.m_name \o <<QUOTE, ",">>
  \o <<QUOTE, "s", "i", "z", "e", QUOTE, ":">> \o Dec(typeInfo.m_size) \o <<",">>
  \o <<QUOTE, "f", "i", "e", "l", "d", "s", QUOTE, ":", "[">>
  \o FieldEntries(typeInfo.m_fields, 1)
  \o <<"]", "}">>

\* the start of the value of the member whose key is typeName
NameStart_OfTypeNameKey(payload) ==
  LET key == <<QUOTE, "t", "y", "p", "e", "N", "a", "m", "e", QUOTE, ":", QUOTE>>
      at == StrFind(payload, key, 0)
  IN IF at = Npos THEN Npos ELSE at + Len(key)

\* the start of the type name in the payload: payload.find("\":\"") + 3
NameStart(payload) == StrFind(payload, <<QUOTE, ":", QUOTE>>, 0) + 3

\* the handler answering a name it does not find as it answers a payload
\* it cannot read
GetTypeInfoHandler_InvalidOnMissing(payload) ==
  LET start == NameStart(payload)
      end == StrFind(payload, <<QUOTE>>, start)
  IN IF start = Npos \/ end = Npos THEN ErrInvalidRequest
     ELSE LET typeInfo == GetType(Substr(payload, start, end - start))
          IN IF typeInfo = NoType THEN ErrInvalidRequest ELSE TypeInfoText(typeInfo)

\* the GetTypeInfo handler of InitializeDefaultHandlers
GetTypeInfoHandler(payload) ==
  LET start == NameStart(payload)
      end == StrFind(payload, <<QUOTE>>, start)
  IN IF start = Npos \/ end = Npos THEN ErrInvalidRequest
     ELSE LET typeInfo == GetType(Substr(payload, start, end - start))
          IN IF typeInfo = NoType THEN ErrTypeNotFound ELSE TypeInfoText(typeInfo)

\* Handlers a caller registers: one answers with the payload it was given,
\* one with an empty object.
EchoHandler(payload) == payload

EmptyHandler(payload) == <<"{", "}">>

\* MessageHandler::operator() : the std::function called with the payload
CallHandler(handler, payload) ==
  CASE handler = "GetTypes" -> GetTypesHandler(payload)
    [] handler = "GetTypeInfo" -> GetTypeInfoHandler(payload)
    [] handler = "Echo" -> EchoHandler(payload)
    [] handler = "Empty" -> EmptyHandler(payload)

\* registration that keeps the handler a type already has
RegisterHandler_KeepFirst(srv, type, handler) ==
  [srv EXCEPT !.m_handlers =
     [t \in DOMAIN srv.m_handlers \cup {type} |->
        IF t \in DOMAIN srv.m_handlers THEN srv.m_handlers[t] ELSE handler]]

\* IPCServer::RegisterHandler
RegisterHandler(srv, type, handler) ==
  [srv EXCEPT !.m_handlers =
     [t \in DOMAIN srv.m_handlers \cup {type} |->
        IF t = type THEN handler ELSE srv.m_handlers[t]]]

\* IPCServer::InitializeDefaultHandlers
InitializeDefaultHandlers(srv) ==
  RegisterHandler(RegisterHandler(srv, "GetTypes", "GetTypes"), "GetTypeInfo", "GetTypeInfo")

\* IPCServer::IPCServer
IPCServer ==
  InitializeDefaultHandlers([m_running |-> FALSE, m_pipeName |-> <<>>, m_handlers |-> <<>>])

\* Start made to work, but answering false when the server already runs
Start_FailsWhenRunning(srv, pipeName) ==
  IF srv.m_running THEN [server |-> srv, ret |-> FALSE]
  ELSE [server |-> [srv EXCEPT !.m_pipeName = pipeName, !.m_running = TRUE],
        ret |-> TRUE]

\* IPCServer::Start : the new server and the value returned
Start(srv, pipeName) ==
  IF srv.m_running THEN [server |-> srv, ret |-> TRUE]
  ELSE [server |-> [srv EXCEPT !.m_pipeName = pipeName, !.m_running = FALSE],
        ret |-> FALSE]

\* IPCServer::Stop
Stop(srv) == IF ~srv.m_running THEN srv ELSE [srv EXCEPT !.m_running = FALSE]

\* IPCServer::IsRunning
IsRunning(srv) == srv.m_running

\* IPCServer::Update : the new server and whether the call got past its
\* guard; the body after the guard is empty
Update(srv) ==
  IF ~srv.m_running THEN [server |-> srv, polled |-> FALSE]
  ELSE [server |-> srv, polled |-> TRUE]

\* IPCServer::SendEvent : the body after the guard is empty
SendEvent(srv, type, payload) == srv

\* HandleMessage that answers a message without a handler with an empty object
HandleMessage_SilentOnUnknown(srv, msg) ==
  IF msg.type \notin DOMAIN srv.m_handlers THEN <<"{", "}">>
  ELSE CallHandler(srv.m_handlers[msg.type], msg.payload)

\* IPCServer::HandleMessage
HandleMessage(srv, msg) ==
  IF msg.type \notin DOMAIN srv.m_handlers THEN ErrUnknownMessageType
  ELSE CallHandler(srv.m_handlers[msg.type], msg.payload)

\* --------------------------------------------------------------- IPCClient
\* IPCClient::IPCClient
IPCClient == [m_connected |-> FALSE, m_pipeName |-> <<>>, m_nextRequestId |-> 1]

\* Connect made to work while Start is not
Connect_Connects(cli, pipeName) ==
  IF cli.m_connected THEN [client |-> cli, ret |-> TRUE]
  ELSE [client |-> [cli EXCEPT !.m_pipeName = pipeName, !.m_connected = TRUE],
        ret |-> TRUE]

\* IPCClient::Connect : the new client and the value returned
Connect(cli, pipeName) ==
  IF cli.m_connected THEN [client |-> cli, ret |-> TRUE]
  ELSE [client |-> [cli EXCEPT !.m_pipeName = pipeName, !.m_connected = FALSE],
        ret |-> FALSE]

\* IPCClient::Disconnect
Disconnect(cli) == IF ~cli.m_connected THEN cli ELSE [cli EXCEPT !.m_connected = FALSE]

\* IPCClient::IsConnected
IsConnected(cli) == cli.m_connected

\* SendCommand taking its request id before it looks at the connection
SendCommand_CountsFirst(cli, type, payload) ==
  IF ~cli.m_connected
  THEN [client |-> [cli EXCEPT !.m_nextRequestId = @ + 1], ret |-> ErrNotConnected,
        msgs |-> <<>>]
  ELSE [client |-> [cli EXCEPT !.m_nextRequestId = @ + 1],
        ret |-> ErrNotImplemented,
        msgs |-> <<Message(type, payload, cli.m_nextRequestId)>>]

\* IPCClient::SendCommand : the new client, the payload returned and the
\* messages built (msg is never handed to a transport)
SendCommand(cli, type, payload) ==
  IF ~cli.m_connected THEN [client |-> cli, ret |-> ErrNotConnected, msgs |-> <<>>]
  ELSE [client |-> [cli EXCEPT !.m_nextRequestId = @ + 1],
        ret |-> ErrNotImplemented,
        msgs |-> <<Message(type, payload, cli.m_nextRequestId)>>]

\* IPCClient::PollEvents
PollEvents(cli) == <<>>

\* ------------------------------------------------------------ IPC C API
\* no server, no client: the process never called IPC_CreateServer,
\* IPC_CreateClient
NoObject == [none |-> TRUE]

\* IPC_CreateServer
IPC_CreateServer == IPCServer

\* IPC_CreateClient
IPC_CreateClient == IPCClient

\* pipeName ? pipeName : "ChroniclesEngine"
PipeNameOrDefault(pipeName) == IF pipeName.null THEN sChroniclesEngine ELSE pipeName.val

\* IPC_ServerStart(server, pipeName) : the server afterwards, the value returned
IPC_ServerStart(srv, pipeName) ==
  IF srv.null THEN [server |-> srv.val, ret |-> FALSE]
  ELSE Start(srv.val, PipeNameOrDefault(pipeName))

\* IPC_ServerStop(server) : the server afterwards
IPC_ServerStop(srv) == IF srv.null THEN srv.val ELSE Stop(srv.val)

\* IPC_ServerUpdate(server)
IPC_ServerUpdate(srv) ==
  IF srv.null THEN [server |-> srv.val, polled |-> FALSE] ELSE Update(srv.val)

\* IPC_ServerSendEvent(server, eventType, payload) : the server afterwards
IPC_ServerSendEvent(srv, eventType, payload) ==
  IF srv.null \/ payload.null THEN srv.val
  ELSE SendEvent(srv.val, MessageType[eventType + 1], payload.val)

\* IPC_ClientConnect(client, pipeName) : the client afterwards, the value returned
IPC_ClientConnect(cli, pipeName) ==
  IF cli.null THEN [client |-> cli.val, ret |-> FALSE]
  ELSE Connect(cli.val, PipeNameOrDefault(pipeName))

\* IPC_ClientDisconnect(client) : the client afterwards
IPC_ClientDisconnect(cli) == IF cli.null THEN cli.val ELSE Disconnect(cli.val)

\* IPC_ClientSendCommand(client, commandType, payload, response, responseSize) :
\* the client and the response buffer afterwards, the value returned
IPC_ClientSendCommand(cli, commandType, payload, response, responseSize) ==
  IF cli.null \/ payload.null \/ response.null \/ responseSize <= 0
  THEN [client |-> cli.val, response |-> response.val, ret |-> FALSE, msgs |-> <<>>]
  ELSE LET result == SendCommand(cli.val, MessageType[commandType + 1], payload.val)
       IN [client |-> result.client,
           response |-> CopyOut(response.val, result.ret, responseSize),
           ret |-> result.ret # <<>>,
           msgs |-> result.msgs]

\* ------------------------------------------------------------ the instance
LiveInstance == [null |-> FALSE, bytes |-> mem, strs |-> strs]
NullInstance == [null |-> TRUE, bytes |-> <<>>, strs |-> <<>>]

\* The live instance as its constructor can leave it.
InitMem(h) ==
  CASE h = sPoint ->
         { [a \in 0..7 |-> IF a < 4 THEN F10[a + 1] ELSE F20[a - 3]] }
    [] h = sGameObject ->
         { [a \in 0..55 |-> IF a = 36 THEN 1 ELSE IF a >= 52 THEN F1[a - 51] ELSE 0] }
    [] h = sVolume ->
         { [a \in 0..15 |-> IF a < 8 THEN d[a + 1] ELSE 0] : d \in DoubleValues }

\* The files a process can name: one it holds, one in a directory that does
\* not exist.
sSavePath == <<"s", "a", "v", "e">>
sMissingPath == <<"n", "o", "/", "s", "a", "v", "e">>

Paths == {sSavePath, sMissingPath}

\* what the file holds before any save
sOldSave == <<"o", "l", "d", " ", "s", "a", "v", "e">>

\* A file system where the save file can be rewritten, and one (a read-only
\* installation) where it can only be read.
FilesOf(canWrite) ==
  [p \in Paths |->
     IF p = sSavePath THEN [exists |-> TRUE, writable |-> canWrite, content |-> sOldSave]
     ELSE [exists |-> FALSE, writable |-> FALSE, content |-> <<>>]]

\* The engine process, which creates a server and a client, hosts a Volume
\* holding 1.5.
IpcHost == sVolume

IpcMem == [a \in 0..15 |-> IF a < 8 THEN D1_5[a + 1] ELSE 0]

InitStrs(h) == IF h = sGameObject THEN [o \in {0} |-> sGameObject] ELSE <<>>

\* The engine process after construction: the registry is empty, the live
\* instance, the server and the client are constructed.
Init ==
  /\ m_types = <<>>
  /\ host = IpcHost
  /\ mem = IpcMem
  /\ strs = InitStrs(host)
  /\ server = IPC_CreateServer
  /\ client = IPC_CreateClient
  /\ files = FilesOf(FALSE)
  /\ last = [op |-> "none"]

\* A process that uses the reflection library on its own, on an instance of
\* any of the structures: it creates no server and no client.
InitReflection ==
  /\ m_types = <<>>
  /\ host \in HostNames
  /\ mem \in InitMem(host)
  /\ strs = InitStrs(host)
  /\ server = NoObject
  /\ client = NoObject
  /\ files = FilesOf(TRUE)
  /\ last = [op |-> "none"]

\* static TypeRegistrar<T>(name).Field(...)... ; the destructor registers
TypeRegistrarAct ==
  \E name \in {host, sTransform} :
    \E decls \in RegistrarChains(name) :
      /\ m_types' = RegisterType(m_types, name, Registrar(name, name, decls))
      /\ last' = [op |-> "register_type", name |-> name,
                  typeInfo |-> Registrar(name, name, decls)]
      /\ UNCHANGED <<host, mem, strs, server, client, files>>

\* ReflectionRegistry::GetType(name)
GetTypeAct ==
  \E name \in LookupNames :
    /\ last' = [op |-> "get_type", name |-> name, ret |-> GetType(name)]
    /\ UNCHANGED <<m_types, host, mem, strs, server, client, files>>

\* ReflectionRegistry::GetAllTypeNames()
GetAllTypeNamesAct ==
  /\ last' = [op |-> "list_type_names", ret |-> GetAllTypeNames]
  /\ UNCHANGED <<m_types, host, mem, strs, server, client, files>>

\* ------------------------------------------------------ arguments of calls
\* The caller's buffer before a call.
Garbage == [k \in 1..BufLen |-> "#"]

\* Every (buffer, bufferSize) a caller can pass: a buffer of BufLen
\* characters announced with any size up to its own, and the null buffer.
BufferArgs == { <<Ptr(Garbage), n>> : n \in 0..BufLen } \cup { <<NullPtr, BufLen>> }

\* Every type name and field name a caller can pass.
TypeArgs == { Ptr(n) : n \in LookupNames } \cup { NullPtr }
FieldArgs == { Ptr(f) : f \in FieldNames(host) } \cup { NullPtr }

\* Every (typeName, fieldName, instance) of a typed accessor.  The instance
\* is an object of the structure `host`, so it is passed with that name or
\* with a name that is not registered.
AccessArgs ==
  { <<t, f, i>> : t \in { Ptr(host), Ptr(sGone), NullPtr }, f \in FieldArgs,
                  i \in { LiveInstance, NullInstance } }

\* The calls the actions make: those on the live instance under its own name
\* with every field name, and one call for every way of failing early.
CalledAccess ==
  { <<Ptr(host), Ptr(f), LiveInstance>> : f \in FieldNames(host) }
  \cup { <<Ptr(sGone), Ptr(<<"j">>), LiveInstance>>,
         <<Ptr(host), Ptr(<<"j">>), NullInstance>> }

\* The values a setter of kind `kind` is called with: every value on a member
\* of that kind, one value elsewhere.
CalledValues(kind, a, values) ==
  IF \E d \in Decls(host) : d.name = a[2].val /\ d.kind = kind /\ ~a[1].null /\ a[1].val = host
  THEN values
  ELSE { CHOOSE v \in values : TRUE }

CalledTypes == { Ptr(host), Ptr(sGone), NullPtr }

CalledBuffers == { <<Ptr(Garbage), BufLen>>, <<Ptr(Garbage), 1>>, <<NullPtr, BufLen>> }

\* what `last` keeps of a getter call, of a setter call, of a string getter call
CallRet(op, a, ret) ==
  [op |-> op, typeName |-> a[1], fieldName |-> a[2], instNull |-> a[3].null, ret |-> ret]

CallValue(op, a, value) ==
  [op |-> op, typeName |-> a[1], fieldName |-> a[2], instNull |-> a[3].null, arg |-> value]

CallBuffer(op, a, b, buffer) ==
  [op |-> op, typeName |-> a[1], fieldName |-> a[2], instNull |-> a[3].null,
   bufNull |-> b[1].null, bufferSize |-> b[2], buffer |-> buffer]

\* ---------------------------------------------------------------- actions
Reflection_GetTypeCountAct ==
  /\ last' = [op |-> "type_count", ret |-> Reflection_GetTypeCount]
  /\ UNCHANGED <<m_types, host, mem, strs, server, client, files>>

Reflection_GetTypeNameAct ==
  \E index \in {-1, 0, 2}, b \in CalledBuffers :
    /\ last' = [op |-> "type_name", index |-> index, bufNull |-> b[1].null,
                bufferSize |-> b[2],
                buffer |-> Reflection_GetTypeName(index, b[1], b[2])]
    /\ UNCHANGED <<m_types, host, mem, strs, server, client, files>>

Reflection_GetTypeSizeAct ==
  \E t \in CalledTypes :
    /\ last' = [op |-> "type_size", typeName |-> t, ret |-> Reflection_GetTypeSize(t)]
    /\ UNCHANGED <<m_types, host, mem, strs, server, client, files>>

Reflection_GetFieldCountAct ==
  \E t \in CalledTypes :
    /\ last' = [op |-> "field_count", typeName |-> t, ret |-> Reflection_GetFieldCount(t)]
    /\ UNCHANGED <<m_types, host, mem, strs, server, client, files>>

Reflection_GetFieldNameAct ==
  \E t \in { Ptr(host), Ptr(sGone) }, index \in {0, MaxFields}, b \in CalledBuffers :
    /\ last' = [op |-> "field_name", typeName |-> t, index |-> index,
                bufNull |-> b[1].null, bufferSize |-> b[2],
                buffer |-> Reflection_GetFieldName(t, index, b[1], b[2])]
    /\ UNCHANGED <<m_types, host, mem, strs, server, client, files>>

Reflection_GetFieldTypeAct ==
  \E a \in CalledAccess :
    /\ ~a[3].null
    /\ last' = [op |-> "field_type", typeName |-> a[1], fieldName |-> a[2],
                ret |-> Reflection_GetFieldType(a[1], a[2])]
    /\ UNCHANGED <<m_types, host, mem, strs, server, client, files>>

Reflection_GetFieldOffsetAct ==
  \E a \in CalledAccess :
    /\ ~a[3].null
    /\ last' = [op |-> "field_offset", typeName |-> a[1], fieldName |-> a[2],
                ret |-> Reflection_GetFieldOffset(a[1], a[2])]
    /\ UNCHANGED <<m_types, host, mem, strs, server, client, files>>

Reflection_GetFloatValueAct ==
  \E a \in CalledAccess :
    /\ last' = CallRet("get_float", a, Reflection_GetFloatValue(a[1], a[2], a[3]))
    /\ UNCHANGED <<m_types, host, mem, strs, server, client, files>>

Reflection_SetFloatValueAct ==
  \E a \in CalledAccess :
    \E value \in CalledValues("Float", a, FloatValues) :
      /\ mem' = IF a[3].null THEN mem ELSE Reflection_SetFloatValue(a[1], a[2], a[3], value)
      /\ last' = CallValue("set_float", a, value)
      /\ UNCHANGED <<m_types, host, strs, server, client, files>>

Reflection_GetIntValueAct ==
  \E a \in CalledAccess :
    /\ last' = CallRet("get_int", a, Reflection_GetIntValue(a[1], a[2], a[3]))
    /\ UNCHANGED <<m_types, host, mem, strs, server, client, files>>

Reflection_SetIntValueAct ==
  \E a \in CalledAccess :
    \E value \in CalledValues("Int", a, IntValues) :
      /\ mem' = IF a[3].null THEN mem ELSE Reflection_SetIntValue(a[1], a[2], a[3], value)
      /\ last' = CallValue("set_int", a, value)
      /\ UNCHANGED <<m_types, host, strs, server, client, files>>

Reflection_GetBoolValueAct ==
  \E a \in CalledAccess :
    /\ last' = CallRet("get_bool", a, Reflection_GetBoolValue(a[1], a[2], a[3]))
    /\ UNCHANGED <<m_types, host, mem, strs, server, client, files>>

Reflection_SetBoolValueAct ==
  \E a \in CalledAccess :
    \E value \in CalledValues("Bool", a, BOOLEAN) :
      /\ mem' = IF a[3].null THEN mem ELSE Reflection_SetBoolValue(a[1], a[2], a[3], value)
      /\ last' = CallValue("set_bool", a, value)
      /\ UNCHANGED <<m_types, host, strs, server, client, files>>

Reflection_GetStringValueAct ==
  \E a \in CalledAccess, b \in CalledBuffers :
    /\ b[2] = BufLen \/ (a[1] = Ptr(host) /\ ~a[3].null)
    /\ last' = CallBuffer("get_string", a, b,
                           Reflection_GetStringValue(a[1], a[2], a[3], b[1], b[2]))
    /\ UNCHANGED <<m_types, host, mem, strs, server, client, files>>

Reflection_SetStringValueAct ==
  \E a \in CalledAccess :
    \E value \in CalledValues("String", a, { Ptr(v) : v \in StringValues } \cup { NullPtr }) :
      /\ strs' = IF a[3].null THEN strs
                 ELSE Reflection_SetStringValue(a[1], a[2], a[3], value)
      /\ last' = CallValue("set_string", a, value)
      /\ UNCHANGED <<m_types, host, mem, server, client, files>>

\* SerializeObject(typeName, instance): the live instance under its own name
\* or an unregistered one, or no instance at all.
SerializeObjectAct ==
  \E typeName \in LookupNames, instance \in {LiveInstance, NullInstance} :
    /\ instance.null \/ typeName \in {host, sGone}
    /\ last' = [op |-> "serialize", typeName |-> typeName, instNull |-> instance.null,
                ret |-> SerializeObject(typeName, instance)]
    /\ UNCHANGED <<m_types, host, mem, strs, server, client, files>>

\* Serialization_ToJson that copies what fits before it reports the failure
Serialization_ToJson_Truncates(typeName, instance, buffer, bufferSize) ==
  IF typeName.null \/ instance.null \/ buffer.null \/ bufferSize <= 0
  THEN [ret |-> -1, buffer |-> buffer.val]
  ELSE LET json == SerializeObject(typeName.val, instance)
       IN IF Len(json) >= bufferSize
          THEN [ret |-> -1, buffer |-> CopyOut(buffer.val, json, bufferSize)]
          ELSE [ret |-> Len(json), buffer |-> CopyOut(buffer.val, json, bufferSize)]

\* -------------------------------------------------------- SerializationAPI
\* Serialization_ToJson(typeName, instance, buffer, bufferSize): the return
\* value and the buffer after the call
Serialization_ToJson(typeName, instance, buffer, bufferSize) ==
  IF typeName.null \/ instance.null \/ buffer.null \/ bufferSize <= 0
  THEN [ret |-> -1, buffer |-> buffer.val]
  ELSE LET json == SerializeObject(typeName.val, instance)
       IN IF Len(json) >= bufferSize THEN [ret |-> -1, buffer |-> buffer.val]
          ELSE [ret |-> Len(json), buffer |-> CopyOut(buffer.val, json, bufferSize)]

\* Serialization_FromJson that clears the first byte of the instance before
\* it gives up
Serialization_FromJson_HalfApplied(typeName, instance, json) ==
  [ret |-> FALSE,
   instance |-> [instance EXCEPT !.bytes =
                   [a \in DOMAIN instance.bytes |->
                      IF a = 0 THEN (instance.bytes[a] + 1) % 256 ELSE instance.bytes[a]]]]

\* Serialization_FromJson(typeName, instance, json): the return value and the
\* instance after the call
Serialization_FromJson(typeName, instance, json) ==
  [ret |-> FALSE, instance |-> instance]

\* Serialization_SaveToFile that opens the file for appending
Serialization_SaveToFile_Appends(typeName, instance, filePath) ==
  IF typeName.null \/ instance.null \/ filePath.null
  THEN [ret |-> FALSE, files |-> files]
  ELSE LET json == SerializeObject(typeName.val, instance)
       IN IF ~files[filePath.val].writable THEN [ret |-> FALSE, files |-> files]
          ELSE [ret |-> TRUE,
                files |-> [files EXCEPT ![filePath.val] =
                             [exists |-> TRUE, writable |-> TRUE,
                              content |-> files[filePath.val].content \o json]]]

\* Serialization_SaveToFile(typeName, instance, filePath): the return value
\* and the files after the call; std::ofstream truncates the file it opens
Serialization_SaveToFile(typeName, instance, filePath) ==
  IF typeName.null \/ instance.null \/ filePath.null
  THEN [ret |-> FALSE, files |-> files]
  ELSE LET json == SerializeObject(typeName.val, instance)
       IN IF ~files[filePath.val].writable THEN [ret |-> FALSE, files |-> files]
          ELSE [ret |-> TRUE,
                files |-> [files EXCEPT ![filePath.val] =
                             [exists |-> TRUE, writable |-> TRUE, content |-> json]]]

\* Serialization_LoadFromFile(typeName, instance, filePath): the return value
\* and the instance after the call
Serialization_LoadFromFile(typeName, instance, filePath) ==
  [ret |-> FALSE, instance |-> instance]

\* The (typeName, instance) pairs a caller passes: the live instance under
\* its own name or an unregistered one, a missing name, a missing instance.
CalledObjects ==
  { <<Ptr(host), LiveInstance>>, <<Ptr(sGone), LiveInstance>>,
    <<NullPtr, LiveInstance>>, <<Ptr(host), NullInstance>> }

\* The buffers passed for the JSON of o: one the text just fits, the same
\* declared one character shorter, none, and one of no size.
CalledJsonBuffers(o) ==
  LET json == IF o[1].null THEN <<"{", "}">> ELSE SerializeObject(o[1].val, o[2])
  IN { <<Ptr(Room(json)), Len(json) + 1>>, <<Ptr(Room(json)), Len(json)>>,
       <<NullPtr, BufLen>>, <<Ptr(Garbage), 0>> }

CalledJson == { Ptr(SerializeObject(host, LiveInstance)), Ptr(<<"{">>), NullPtr }

CalledPaths == { Ptr(sSavePath), Ptr(sMissingPath), NullPtr }

\* the instance as the caller finds it after a call that was handed instance
Store(before, after) ==
  /\ mem' = IF before.null THEN mem ELSE after.bytes
  /\ strs' = IF before.null THEN strs ELSE after.strs

Serialization_ToJsonAct ==
  \E o \in CalledObjects :
    \E b \in CalledJsonBuffers(o) :
      LET r == Serialization_ToJson(o[1], o[2], b[1], b[2])
      IN /\ last' = [op |-> "to_json", nameNull |-> o[1].null,
                     typeName |-> o[1].val, instNull |-> o[2].null,
                     bufNull |-> b[1].null, bufferSize |-> b[2],
                     before |-> b[1].val, buffer |-> r.buffer, ret |-> r.ret]
         /\ UNCHANGED <<m_types, host, mem, strs, server, client, files>>

Serialization_FromJsonAct ==
  \E o \in CalledObjects, json \in CalledJson :
    LET r == Serialization_FromJson(o[1], o[2], json)
    IN /\ Store(o[2], r.instance)
       /\ last' = [op |-> "from_json", nameNull |-> o[1].null,
                   typeName |-> o[1].val, instNull |-> o[2].null,
                   jsonNull |-> json.null, before |-> o[2], ret |-> r.ret]
       /\ UNCHANGED <<m_types, host, server, client, files>>

Serialization_SaveToFileAct ==
  \E o \in CalledObjects, filePath \in CalledPaths :
    LET r == Serialization_SaveToFile(o[1], o[2], filePath)
    IN /\ files' = r.files
       /\ last' = [op |-> "save_to_file", nameNull |-> o[1].null,
                   typeName |-> o[1].val, instNull |-> o[2].null,
                   pathNull |-> filePath.null, filePath |-> filePath.val,
                   before |-> files, ret |-> r.ret]
       /\ UNCHANGED <<m_types, host, mem, strs, server, client>>

Serialization_LoadFromFileAct ==
  \E o \in CalledObjects, filePath \in CalledPaths :
    LET r == Serialization_LoadFromFile(o[1], o[2], filePath)
    IN /\ Store(o[2], r.instance)
       /\ last' = [op |-> "load_from_file", nameNull |-> o[1].null,
                   typeName |-> o[1].val, instNull |-> o[2].null,
                   pathNull |-> filePath.null, filePath |-> filePath.val,
                   before |-> o[2], ret |-> r.ret]
       /\ UNCHANGED <<m_types, host, server, client, files>>

\* ------------------------------------------------------------- IPC calls
\* The server and client pointers a process passes: its own objects or NULL.
ServerPtrs == IF server = NoObject THEN {} ELSE { Ptr(server), NullPtr }

ClientPtrs == IF client = NoObject THEN {} ELSE { Ptr(client), NullPtr }

\* "p", the pipe name of a caller that does not take the default
sPipe == <<"p">>

PipeNames == { NullPtr, Ptr(sPipe), Ptr(sChroniclesEngine) }

CalledPipeNames == { Ptr(sPipe) }

sTypeName == <<"t", "y", "p", "e", "N", "a", "m", "e">>

\* the request {"<key>":"<name>"}
Request(key, name) ==
  <<"{", QUOTE>> \o key \o <<QUOTE, ":", QUOTE>> \o name \o <<QUOTE, "}">>

\* requests that are not of that shape: {"<name>"}, {"<key>":"<name> cut
\* before the closing quote, and {}
Bare(name) == <<"{", QUOTE>> \o name \o <<QUOTE, "}">>

Unclosed(key, name) == <<"{", QUOTE>> \o key \o <<QUOTE, ":", QUOTE>> \o name

EmptyRequest == <<"{", "}">>

\* Every payload a GetTypeInfo request is made with.
Payloads ==
  { Request(k, n) : k \in {sTypeName, <<"o">>}, n \in LookupNames }
  \cup { Bare(n) : n \in LookupNames }
  \cup { Unclosed(sTypeName, n) : n \in LookupNames }
  \cup { EmptyRequest, <<>>, <<"{">> }

CalledPayloads ==
  { Request(sTypeName, host), Request(sTypeName, sGone), Request(<<"o">>, sTransform),
    Bare(host), Unclosed(sTypeName, host), EmptyRequest }

\* The messages dispatched: a GetTypeInfo request with each payload, the
\* other types with an empty request, and a SetProperty message carrying the
\* error object of an earlier response.
CalledMessages ==
  { Message("GetTypeInfo", q, 1) : q \in CalledPayloads }
  \cup { Message(t, EmptyRequest, 1) : t \in {"GetTypes", "SetProperty", "Error"} }
  \cup { Message("SetProperty", ErrUnknownMessageType, 1) }

\* The (type, handler) a caller registers.
CalledHandlers == { <<"GetTypes", "Echo">>, <<"SetProperty", "Echo">> }

\* IPC_ClientSendCommand(client, commandType, payload, response, responseSize)
CalledCommands ==
  { <<c, 0, Ptr(EmptyRequest), Ptr(Room(ErrNotConnected)), Len(ErrNotConnected) + 1>> :
      c \in ClientPtrs }
  \cup (IF client = NoObject THEN {}
        ELSE { <<Ptr(client), 1, Ptr(Request(sTypeName, host)), Ptr(Garbage), BufLen>>,
               <<Ptr(client), 0, NullPtr, Ptr(Garbage), BufLen>>,
               <<Ptr(client), 0, Ptr(EmptyRequest), NullPtr, BufLen>>,
               <<Ptr(client), 0, Ptr(EmptyRequest), Ptr(Garbage), 0>> })

IPC_ServerStartAct ==
  \E s \in ServerPtrs, pipeName \in CalledPipeNames :
    LET r == IPC_ServerStart(s, pipeName)
    IN /\ server' = (IF s.null THEN server ELSE r.server)
       /\ last' = [op |-> "server_start", null |-> s.null, pipeName |-> pipeName,
                   ret |-> r.ret,
                   twice |-> last.op = "server_start" /\ ~last.null /\ ~s.null]
       /\ UNCHANGED <<m_types, host, mem, strs, client, files>>

IPC_ServerStopAct ==
  \E s \in ServerPtrs :
    /\ server' = (IF s.null THEN server ELSE IPC_ServerStop(s))
    /\ last' = [op |-> "server_stop", null |-> s.null]
    /\ UNCHANGED <<m_types, host, mem, strs, client, files>>

IPC_ServerUpdateAct ==
  \E s \in ServerPtrs :
    LET r == IPC_ServerUpdate(s)
    IN /\ server' = (IF s.null THEN server ELSE r.server)
       /\ last' = [op |-> "server_update", null |-> s.null, polled |-> r.polled]
       /\ UNCHANGED <<m_types, host, mem, strs, client, files>>

IPC_ServerSendEventAct ==
  \E s \in ServerPtrs, payload \in { Ptr(EmptyRequest), NullPtr } :
    /\ server' = (IF s.null THEN server ELSE IPC_ServerSendEvent(s, 12, payload))
    /\ last' = [op |-> "server_send_event", null |-> s.null, payloadNull |-> payload.null]
    /\ UNCHANGED <<m_types, host, mem, strs, client, files>>

\* server.RegisterHandler(type, handler)
RegisterHandlerAct ==
  \E h \in CalledHandlers :
    /\ server # NoObject
    /\ server' = RegisterHandler(server, h[1], h[2])
    /\ last' = [op |-> "register_handler", type |-> h[1], handler |-> h[2]]
    /\ UNCHANGED <<m_types, host, mem, strs, client, files>>

\* server.HandleMessage(msg)
HandleMessageAct ==
  \E msg \in CalledMessages :
    /\ server # NoObject
    /\ last' = [op |-> "handle_message", msg |-> msg, ret |-> HandleMessage(server, msg)]
    /\ UNCHANGED <<m_types, host, mem, strs, server, client, files>>

IPC_ClientConnectAct ==
  \E c \in ClientPtrs, pipeName \in CalledPipeNames :
    LET r == IPC_ClientConnect(c, pipeName)
    IN /\ client' = (IF c.null THEN client ELSE r.client)
       /\ last' = [op |-> "client_connect", null |-> c.null, pipeName |-> pipeName,
                   ret |-> r.ret]
       /\ UNCHANGED <<m_types, host, mem, strs, server, files>>

IPC_ClientDisconnectAct ==
  \E c \in ClientPtrs :
    /\ client' = (IF c.null THEN client ELSE IPC_ClientDisconnect(c))
    /\ last' = [op |-> "client_disconnect", null |-> c.null]
    /\ UNCHANGED <<m_types, host, mem, strs, server, files>>

IPC_ClientSendCommandAct ==
  \E a \in CalledCommands :
    LET r == IPC_ClientSendCommand(a[1], a[2], a[3], a[4], a[5])
    IN /\ client' = (IF a[1].null THEN client ELSE r.client)
       /\ last' = [op |-> "client_send", null |-> a[1].null, commandType |-> a[2],
                   payload |-> a[3], responseSize |-> a[5],
                   responseNull |-> a[4].null, response |-> r.response,
                   ret |-> r.ret, msgs |-> r.msgs]
       /\ UNCHANGED <<m_types, host, mem, strs, server, files>>

\* client.PollEvents()
PollEventsAct ==
  /\ client # NoObject
  /\ last' = [op |-> "client_poll_events", ret |-> PollEvents(client)]
  /\ UNCHANGED <<m_types, host, mem, strs, server, client, files>>

Next ==
  \/ TypeRegistrarAct
  \/ GetTypeAct
  \/ GetAllTypeNamesAct
  \/ Reflection_GetTypeCountAct
  \/ Reflection_GetTypeNameAct
  \/ Reflection_GetTypeSizeAct
  \/ Reflection_GetFieldCountAct
  \/ Reflection_GetFieldNameAct
  \/ Reflection_GetFieldTypeAct
  \/ Reflection_GetFieldOffsetAct
  \/ Reflection_GetFloatValueAct
  \/ Reflection_SetFloatValueAct
  \/ Reflection_GetIntValueAct
  \/ Reflection_SetIntValueAct
  \/ Reflection_GetBoolValueAct
  \/ Reflection_SetBoolValueAct
  \/ Reflection_GetStringValueAct
  \/ Reflection_SetStringValueAct
  \/ SerializeObjectAct
  \/ IPC_ServerStartAct
  \/ IPC_ServerStopAct
  \/ IPC_ServerUpdateAct
  \/ IPC_ServerSendEventAct
  \/ RegisterHandlerAct
  \/ HandleMessageAct
  \/ IPC_ClientConnectAct
  \/ IPC_ClientDisconnectAct
  \/ IPC_ClientSendCommandAct
  \/ PollEventsAct
  \/ Serialization_ToJsonAct
  \/ Serialization_FromJsonAct
  \/ Serialization_SaveToFileAct
  \/ Serialization_LoadFromFileAct

Spec == Init /\ [][Next]_vars

\* The registry and the queries on it.
NextRegistry ==
  \/ TypeRegistrarAct
  \/ GetTypeAct
  \/ GetAllTypeNamesAct
  \/ Reflection_GetTypeCountAct
  \/ Reflection_GetTypeNameAct
  \/ Reflection_GetTypeSizeAct
  \/ Reflection_GetFieldCountAct
  \/ Reflection_GetFieldNameAct
  \/ Reflection_GetFieldTypeAct
  \/ Reflection_GetFieldOffsetAct

SpecRegistry == InitReflection /\ [][NextRegistry]_vars

\* Registration and the typed accessors.
NextAccess ==
  \/ TypeRegistrarAct
  \/ Reflection_GetFloatValueAct
  \/ Reflection_SetFloatValueAct
  \/ Reflection_GetIntValueAct
  \/ Reflection_SetIntValueAct
  \/ Reflection_GetBoolValueAct
  \/ Reflection_SetBoolValueAct
  \/ Reflection_GetStringValueAct
  \/ Reflection_SetStringValueAct

SpecAccess == InitReflection /\ [][NextAccess]_vars

\* Registration, the setters that fill the instance, and the serializer.
NextSerialize ==
  \/ TypeRegistrarAct
  \/ Reflection_SetFloatValueAct
  \/ Reflection_SetIntValueAct
  \/ Reflection_SetBoolValueAct
  \/ Reflection_SetStringValueAct
  \/ SerializeObjectAct

SpecSerialize == InitReflection /\ [][NextSerialize]_vars

\* Registration, the typed accessors and the serializer.
NextFrame ==
  \/ TypeRegistrarAct
  \/ Reflection_GetFloatValueAct
  \/ Reflection_SetFloatValueAct
  \/ Reflection_GetIntValueAct
  \/ Reflection_SetIntValueAct
  \/ Reflection_GetBoolValueAct
  \/ Reflection_SetBoolValueAct
  \/ Reflection_GetStringValueAct
  \/ Reflection_SetStringValueAct
  \/ SerializeObjectAct

SpecFrame == InitReflection /\ [][NextFrame]_vars

\* Registration and the serialization calls of the C interface.
NextSerialization ==
  \/ TypeRegistrarAct
  \/ Serialization_ToJsonAct
  \/ Serialization_FromJsonAct
  \/ Serialization_SaveToFileAct
  \/ Serialization_LoadFromFileAct

\* A process whose live instance is a Point.
InitSerialization == InitReflection /\ host = sPoint

SpecSerialization == InitSerialization /\ [][NextSerialization]_vars

\* Registration, the server and the client.
NextIPC ==
  \/ TypeRegistrarAct
  \/ IPC_ServerStartAct
  \/ IPC_ServerStopAct
  \/ IPC_ServerUpdateAct
  \/ IPC_ServerSendEventAct
  \/ RegisterHandlerAct
  \/ HandleMessageAct
  \/ IPC_ClientConnectAct
  \/ IPC_ClientDisconnectAct
  \/ IPC_ClientSendCommandAct
  \/ PollEventsAct

SpecIPC == Init /\ [][NextIPC]_vars


\* ==================================================================== claims
\* What the claims say about a registry, stated without the lookup code.
Registered(n) == n \in DOMAIN m_types

\* the position of the first field of n that is named f, 0 when there is none
FirstNamed(n, f) ==
  LET fs == m_types[n].m_fields
      hits == { k \in 1..Len(fs) : fs[k].m_name = f }
  IN IF hits = {} THEN 0 ELSE CHOOSE k \in hits : \A o \in hits : k <= o

\* n is registered and declares f with kind `kind`
DeclaresAs(n, f, kind) ==
  /\ Registered(n)
  /\ FirstNamed(n, f) # 0
  /\ m_types[n].m_fields[FirstNamed(n, f)].m_type = kind

RECURSIVE CStr(_)
\* the null-terminated string a buffer holds
CStr(b) == IF b = <<>> \/ Head(b) = NUL THEN <<>> ELSE <<Head(b)>> \o CStr(Tail(b))

Min(a, b) == IF a < b THEN a ELSE b

Mutators == {"register_type", "set_float", "set_int", "set_bool", "set_string"}

\* C1: after register_type(n, d), get_type(n) is d (same size, same fields in
\* the same order), every other name keeps its descriptor, and the number of
\* registered types is unchanged when n was already registered; no other
\* operation changes what get_type returns.
C1_RegisterRoundTrip ==
  [][ IF last'.op = "register_type"
      THEN /\ Find(m_types', last'.name) # NoType
           /\ Find(m_types', last'.name).m_size = last'.typeInfo.m_size
           /\ Find(m_types', last'.name).m_fields = last'.typeInfo.m_fields
           /\ \A n \in LookupNames \ {last'.name} : Find(m_types', n) = GetType(n)
           /\ Registered(last'.name) => Len(Keys(m_types')) = Reflection_GetTypeCount
      ELSE \A n \in LookupNames : Find(m_types', n) = GetType(n) ]_vars

\* a name was registered, a second one is registered too, and the lookup of
\* one of them returned its fields
C1_Witness ==
  /\ last.op = "get_type"
  /\ Cardinality(DOMAIN m_types) = 2
  /\ Registered(last.name)
  /\ last.ret = m_types[last.name]
  /\ Len(last.ret.m_fields) = MaxFields

\* C2: a registered name stays registered and type_count() never decreases,
\* whatever operation is performed.
C2_AppendOnly ==
  [][ /\ DOMAIN m_types \subseteq DOMAIN m_types'
      /\ Len(Keys(m_types')) >= Reflection_GetTypeCount ]_vars

\* two types are registered and operations other than register_type ran
C2_Witness ==
  /\ Cardinality(DOMAIN m_types) = 2
  /\ last.op = "handle_message"
  /\ last.msg.type = "GetTypeInfo"
  /\ server.m_handlers # IPCServer.m_handlers

\* the live instance, registered under its own name, with a declared field
\* of kind `kind` named by the call c
Valid(c, kind) ==
  /\ ~c.typeName.null /\ ~c.fieldName.null /\ ~c.instNull
  /\ DeclaresAs(c.typeName.val, c.fieldName.val, kind)

Prefix(s, n) == SubSeq(s, 1, n)

\* C3 as stated: the getter called right after a setter of the same kind on
\* the same type, field and instance returns the value set (for String: the
\* caller's buffer, given whole, holds the value).
C3_ReadAfterWrite ==
  /\ (last.op = "set_float" /\ Valid(last, "Float"))
       => Reflection_GetFloatValue(last.typeName, last.fieldName, LiveInstance) = last.arg
  /\ (last.op = "set_int" /\ Valid(last, "Int"))
       => Reflection_GetIntValue(last.typeName, last.fieldName, LiveInstance) = last.arg
  /\ (last.op = "set_bool" /\ Valid(last, "Bool"))
       => Reflection_GetBoolValue(last.typeName, last.fieldName, LiveInstance) = last.arg
  /\ (last.op = "set_string" /\ Valid(last, "String") /\ ~last.arg.null)
       => CStr(Reflection_GetStringValue(last.typeName, last.fieldName, LiveInstance,
                                         Ptr(Garbage), BufLen)) = last.arg.val

\* C3 (amended): the Bool, Int and Float getters return the value set; the
\* String getter leaves in the buffer the first min(len, bufferSize - 1)
\* characters of the value set, which is the value itself when it fits.
C3_ReadAfterWriteFits ==
  /\ (last.op = "set_float" /\ Valid(last, "Float"))
       => Reflection_GetFloatValue(last.typeName, last.fieldName, LiveInstance) = last.arg
  /\ (last.op = "set_int" /\ Valid(last, "Int"))
       => Reflection_GetIntValue(last.typeName, last.fieldName, LiveInstance) = last.arg
  /\ (last.op = "set_bool" /\ Valid(last, "Bool"))
       => Reflection_GetBoolValue(last.typeName, last.fieldName, LiveInstance) = last.arg
  /\ (last.op = "set_string" /\ Valid(last, "String") /\ ~last.arg.null)
       => \A n \in 1..BufLen :
            CStr(Reflection_GetStringValue(last.typeName, last.fieldName, LiveInstance,
                                           Ptr(Garbage), n))
              = Prefix(last.arg.val, Min(Len(last.arg.val), n - 1))

\* a string that does not fit the buffer was set on a declared String field
C3_Witness ==
  /\ last.op = "set_string" /\ Valid(last, "String") /\ ~last.arg.null
  /\ Len(last.arg.val) >= BufLen
  /\ strs[0] = last.arg.val

\* the accessor arguments that are not null
NonNullAccess == { a \in AccessArgs : ~a[1].null /\ ~a[2].null /\ ~a[3].null }

\* the buffers a string getter can write to
WritableBuffers == { b \in BufferArgs : ~b[1].null /\ b[2] > 0 }

C4_Getters ==
  \A a \in NonNullAccess :
    /\ ~DeclaresAs(a[1].val, a[2].val, "Float")
         => /\ Reflection_GetFloatValue(a[1], a[2], a[3]) = F0
            /\ \A v \in FloatValues : Reflection_SetFloatValue(a[1], a[2], a[3], v) = mem
    /\ ~DeclaresAs(a[1].val, a[2].val, "Int")
         => /\ Reflection_GetIntValue(a[1], a[2], a[3]) = 0
            /\ \A v \in IntValues : Reflection_SetIntValue(a[1], a[2], a[3], v) = mem
    /\ ~DeclaresAs(a[1].val, a[2].val, "Bool")
         => /\ Reflection_GetBoolValue(a[1], a[2], a[3]) = FALSE
            /\ \A v \in BOOLEAN : Reflection_SetBoolValue(a[1], a[2], a[3], v) = mem
    /\ ~DeclaresAs(a[1].val, a[2].val, "String")
         => /\ \A b \in WritableBuffers :
                 CStr(Reflection_GetStringValue(a[1], a[2], a[3], b[1], b[2])) = <<>>
            /\ \A v \in StringValues :
                 Reflection_SetStringValue(a[1], a[2], a[3], Ptr(v)) = strs

KindOf(op) ==
  CASE op = "set_float" -> "Float" [] op = "set_int" -> "Int"
    [] op = "set_bool" -> "Bool" [] op = "set_string" -> "String"

C4_Setters ==
  (/\ last'.op \in {"set_float", "set_int", "set_bool", "set_string"}
   /\ ~last'.typeName.null /\ ~last'.fieldName.null
   /\ ~DeclaresAs(last'.typeName.val, last'.fieldName.val, KindOf(last'.op)))
  => (mem' = mem /\ strs' = strs)

\* C4: with an unregistered type name, an undeclared field name or a field
\* declared with another kind, each typed getter returns its sentinel (0.0f,
\* 0, false, the empty string) and each typed setter leaves the instance as
\* it was.
C4_SoftFail == []C4_Getters /\ [][C4_Setters]_vars

\* an int setter was called on a declared field of another kind
C4_Witness ==
  /\ last.op = "set_int" /\ ~last.instNull /\ ~last.typeName.null /\ ~last.fieldName.null
  /\ Registered(last.typeName.val)
  /\ FirstNamed(last.typeName.val, last.fieldName.val) # 0
  /\ ~DeclaresAs(last.typeName.val, last.fieldName.val, "Int")

C5_Queries ==
  /\ \A t \in LookupNames : ~Registered(t) =>
       /\ Reflection_GetTypeSize(Ptr(t)) = 0
       /\ Reflection_GetFieldCount(Ptr(t)) = 0
       /\ \A f \in FieldNames(host) :
            /\ Reflection_GetFieldType(Ptr(t), Ptr(f)) = -1
            /\ Reflection_GetFieldOffset(Ptr(t), Ptr(f)) = -1
       /\ \A i \in -1..MaxFields, b \in WritableBuffers :
            CStr(Reflection_GetFieldName(Ptr(t), i, b[1], b[2])) = <<>>
  /\ \A t \in LookupNames : Registered(t) =>
       /\ \A f \in FieldNames(host) : FirstNamed(t, f) = 0 =>
            /\ Reflection_GetFieldType(Ptr(t), Ptr(f)) = -1
            /\ Reflection_GetFieldOffset(Ptr(t), Ptr(f)) = -1
       /\ \A i \in -1..(MaxFields + 2), b \in WritableBuffers :
            (i < 0 \/ i >= Len(m_types[t].m_fields))
              => CStr(Reflection_GetFieldName(Ptr(t), i, b[1], b[2])) = <<>>
  /\ \A i \in -1..3, b \in WritableBuffers :
       (i < 0 \/ i >= Cardinality(DOMAIN m_types))
         => CStr(Reflection_GetTypeName(i, b[1], b[2])) = <<>>

C5_Frame ==
  last'.op \in {"type_count", "type_name", "type_size", "field_count", "field_name",
                "field_type", "field_offset"}
    => m_types' = m_types

\* C5: the metadata queries answer an unregistered type, an undeclared field
\* or an index out of range with their sentinel (0, 0, -1, -1, the empty
\* string) and leave the registry unchanged.
C5_MetadataSentinels == []C5_Queries /\ [][C5_Frame]_vars

\* field_offset was asked for an undeclared field of a registered type
C5_Witness ==
  /\ last.op = "field_offset" /\ ~last.typeName.null /\ ~last.fieldName.null
  /\ Registered(last.typeName.val)
  /\ m_types[last.typeName.val].m_fields # <<>>
  /\ FirstNamed(last.typeName.val, last.fieldName.val) = 0
  /\ last.ret = -1

\* ------------------------------------------------------------ serialization
\* What the claims say about serialize's output, read back from the text.
EmptyObject == <<"{", "}">>

\* the fields that contribute a member
Supported(kind) == kind \in {"Bool", "Int", "Float", "Double", "String"}

\* serialize has just been called on a registered type with an instance
Serialized ==
  last.op = "serialize" /\ Registered(last.typeName) /\ ~last.instNull

\* the text cut at its newlines
Lines(t) ==
  LET nl == { i \in 1..Len(t) : t[i] = LF }
      n == Cardinality(nl) + 1
      NthLF(k) == CHOOSE i \in nl : Cardinality({ j \in nl : j < i }) = k - 1
      first(k) == IF k = 1 THEN 1 ELSE NthLF(k - 1) + 1
      final(k) == IF k = n THEN Len(t) ELSE NthLF(k) - 1
  IN [k \in 1..n |-> SubSeq(t, first(k), final(k))]

MemberStart == <<" ", " ", QUOTE>>

IsMemberLine(l) == Len(l) >= 3 /\ SubSeq(l, 1, 3) = MemberStart

\* the lines of the text that hold a member
MemberLines(t) == SelectSeq(Lines(t), IsMemberLine)

\* the key of a member line: what stands between its first two quotes
KeyOf(l) ==
  LET closing == { i \in 4..Len(l) : l[i] = QUOTE }
      q == IF closing = {} THEN Len(l) + 1
           ELSE CHOOSE i \in closing : \A j \in closing : i <= j
  IN SubSeq(l, 4, q - 1)

MemberKeys(t) == [k \in 1..Len(MemberLines(t)) |-> KeyOf(MemberLines(t)[k])]

\* the names of the fields of a supported kind, in declaration order
SupportedFields(fields) == SelectSeq(fields, LAMBDA f : Supported(f.m_type))

SupportedNames(fields) ==
  [k \in 1..Len(SupportedFields(fields)) |-> SupportedFields(fields)[k].m_name]

\* C6: serialize returns exactly "{}" whenever the type is not registered or
\* the instance is null, in every state of the registry.
C6_FailsSoft ==
  /\ \A t \in LookupNames :
       /\ SerializeObject(t, NullInstance) = EmptyObject
       /\ ~Registered(t) => SerializeObject(t, LiveInstance) = EmptyObject
  /\ (last.op = "serialize" /\ (~Registered(last.typeName) \/ last.instNull))
       => last.ret = EmptyObject

\* serialize was called with no instance on a registered type that has fields
C6_Witness ==
  /\ last.op = "serialize" /\ last.instNull
  /\ Registered(last.typeName)
  /\ m_types[last.typeName].m_fields # <<>>
  /\ last.ret = EmptyObject

\* C7: the member keys of serialize's output are the names of the fields of
\* kind Bool, Int, Float, Double or String, in declaration order; fields of
\* another kind contribute no member, and a type whose fields are all
\* supported has one key per field.
C7_MemberKeys ==
  Serialized =>
    LET fields == m_types[last.typeName].m_fields
    IN /\ MemberKeys(last.ret) = SupportedNames(fields)
       /\ (\A k \in 1..Len(fields) : Supported(fields[k].m_type))
            => /\ Len(MemberKeys(last.ret)) = Len(fields)
               /\ \A k \in 1..Len(fields) : MemberKeys(last.ret)[k] = fields[k].m_name

\* a type with a supported and a skipped field was serialized
C7_Witness ==
  /\ Serialized
  /\ \E i, j \in 1..Len(m_types[last.typeName].m_fields) :
       /\ m_types[last.typeName].m_fields[i].m_type = "Double"
       /\ m_types[last.typeName].m_fields[j].m_type = "Vector2"
  /\ MemberKeys(last.ret) = << <<"m">> >>

\* C8: serialize's output is a single object whose last emitted member is not
\* followed by a comma, whatever the kinds of the fields.
C8_NoTrailingComma ==
  Serialized =>
    LET members == MemberLines(last.ret)
    IN /\ Head(last.ret) = "{"
       /\ last.ret[Len(last.ret)] = "}"
       /\ members # <<>> =>
            members[Len(members)][Len(members[Len(members)])] # ","

\* ---------------------------------------------------------------- layout
IsDigit(c) == c \in {"0", "1", "2", "3", "4", "5", "6", "7", "8", "9"}

\* fixed notation with exactly 6 digits after the decimal point
IsFixed6(v) ==
  LET body == IF v # <<>> /\ Head(v) = "-" THEN Tail(v) ELSE v
      n == Len(body)
  IN /\ n >= 8
     /\ body[n - 6] = "."
     /\ \A i \in 1..n : i # n - 6 => IsDigit(body[i])

\* what precedes the value on the line of the member named `name`
MemberPrefix(name) == MemberStart \o name \o <<QUOTE, ":", " ">>

\* the value on line l of a member named `name`, followed by a comma or not
ValueOf(l, name, comma) ==
  SubSeq(l, Len(MemberPrefix(name)) + 1, Len(l) - (IF comma THEN 1 ELSE 0))

AllSupported(fields) == \A k \in 1..Len(fields) : Supported(fields[k].m_type)

\* Point {x: Float@0, y: Float@4} holding x = 10.0, y = 20.0
PointFields == <<FieldInfo(<<"x">>, "Float", 0), FieldInfo(<<"y">>, "Float", 4)>>

PointBytes == [a \in 0..7 |-> IF a < 4 THEN F10[a + 1] ELSE F20[a - 3]]

PointText ==
  <<"{", LF>>
  \o <<" ", " ", QUOTE, "x", QUOTE, ":", " ", "1", "0", ".", "0", "0", "0", "0", "0", "0",
       ",", LF>>
  \o <<" ", " ", QUOTE, "y", QUOTE, ":", " ", "2", "0", ".", "0", "0", "0", "0", "0", "0",
       LF>>
  \o <<"}">>

\* C9: for a type whose fields are all supported the output is "{" and a
\* newline, each member on its own line as two spaces, the quoted name, a
\* colon, one space and the value, a comma after every member but the last,
\* then "}" and nothing more; Float and Double values are in fixed notation
\* with exactly 6 digits after the point; Point with x = 10, y = 20 gives
\* exactly the text of the example.
C9_Layout ==
  /\ (Serialized /\ AllSupported(m_types[last.typeName].m_fields)) =>
       LET fields == m_types[last.typeName].m_fields
           n == Len(fields)
           lines == Lines(last.ret)
       IN /\ Len(lines) = n + 2
          /\ lines[1] = <<"{">>
          /\ lines[n + 2] = <<"}">>
          /\ \A k \in 1..n :
               LET l == lines[k + 1]
                   pre == MemberPrefix(fields[k].m_name)
                   value == ValueOf(l, fields[k].m_name, k < n)
               IN /\ Len(l) > Len(pre)
                  /\ SubSeq(l, 1, Len(pre)) = pre
                  /\ (l[Len(l)] = ",") <=> (k < n)
                  /\ value # <<>>
                  /\ fields[k].m_type \in {"Float", "Double"} => IsFixed6(value)
  /\ (Serialized /\ last.typeName = sPoint /\ m_types[sPoint].m_fields = PointFields
        /\ mem = PointBytes)
       => last.ret = PointText

\* --------------------------------------------------------------- escaping
\* the two-character escapes of the five characters that have one
Escapes ==
  { <<QUOTE, <<BSLASH, QUOTE>> >>, <<BSLASH, <<BSLASH, BSLASH>> >>, <<LF, <<BSLASH, "n">> >>,
    <<CR, <<BSLASH, "r">> >>, <<TAB, <<BSLASH, "t">> >> }

\* text v is the characters of str, in order, each one that has an escape
\* replaced by it and every other one copied
IsEscaped(v, str) ==
  LET width(c) == IF \E e \in Escapes : e[1] = c THEN 2 ELSE 1
      start[i \in 0..Len(str)] == IF i = 0 THEN 1 ELSE start[i - 1] + width(str[i])
  IN /\ Len(v) = start[Len(str)] - 1
     /\ \A i \in 1..Len(str) :
          IF width(str[i]) = 2
          THEN <<str[i], SubSeq(v, start[i - 1], start[i - 1] + 1)>> \in Escapes
          ELSE v[start[i - 1]] = str[i]

\* C10: the value of a String field is, between two quotes, the field's
\* characters in order with each double quote, backslash, newline, carriage
\* return and tab replaced by its two-character escape and every other
\* character copied unchanged.
C10_Escaping ==
  Serialized =>
    LET fields == SupportedFields(m_types[last.typeName].m_fields)
        members == MemberLines(last.ret)
    IN /\ Len(members) = Len(fields)
       /\ \A k \in 1..Len(fields) : fields[k].m_type = "String" =>
            LET l == members[k]
                value == ValueOf(l, fields[k].m_name, l[Len(l)] = ",")
            IN /\ Len(value) >= 2
               /\ Head(value) = QUOTE
               /\ value[Len(value)] = QUOTE
               /\ IsEscaped(SubSeq(value, 2, Len(value) - 1), strs[fields[k].m_offset])

\* a string holding a newline, a carriage return, a tab and a plain character
\* was serialized
C10_Witness ==
  /\ Serialized
  /\ \E k \in 1..Len(m_types[last.typeName].m_fields) :
       /\ m_types[last.typeName].m_fields[k].m_type = "String"
       /\ strs[m_types[last.typeName].m_fields[k].m_offset] = <<LF, CR, TAB, "b">>
  /\ \E i \in 1..(Len(last.ret) - 1) : last.ret[i] = BSLASH /\ last.ret[i + 1] = "r"

\* ---------------------------------------------------------------------- IPC
\* the server, the client of the process were called, not NULL
OnServer(op) == last.op = op /\ ~last.null

\* C11: Start on a stopped server returns true and leaves IsRunning() true,
\* and a following Stop leaves IsRunning() false.
C11_StartStop ==
  /\ OnServer("server_start") => (last.ret /\ IsRunning(server))
  /\ OnServer("server_stop") => ~IsRunning(server)

\* C12: Start called twice in a row, from any reachable server and with any
\* pipe names, returns the same value and leaves the same IsRunning(); Stop
\* on a server that is not running changes nothing.
C12_Calls ==
  server # NoObject =>
    /\ \A p1, p2 \in PipeNames :
         LET first == IPC_ServerStart(Ptr(server), p1)
             second == IPC_ServerStart(Ptr(first.server), p2)
         IN /\ second.ret = first.ret
            /\ IsRunning(second.server) = IsRunning(first.server)
    /\ ~IsRunning(server) => IPC_ServerStop(Ptr(server)) = server

C12_Steps ==
  /\ (last'.op = "server_start" /\ last'.twice)
       => (last'.ret = last.ret /\ IsRunning(server') = IsRunning(server))
  /\ (last'.op = "server_stop" /\ ~IsRunning(server)) => server' = server

C12_Idempotent == []C12_Calls /\ [][C12_Steps]_vars

\* Start was called twice in a row with a pipe name of the caller's
C12_Witness ==
  /\ OnServer("server_start") /\ last.twice
  /\ PipeNameOrDefault(last.pipeName) = sPipe
  /\ server.m_pipeName = sPipe

\* ------------------------------------------------------------------ C13
\* Longest sequence of Start/Stop calls that is replayed on a fresh server
\* and a fresh client.
MaxCalls == 2

LifeCalls == { <<"start", p>> : p \in PipeNames } \cup { <<"stop", NullPtr>> }

CallSeqs == UNION { [1..n -> LifeCalls] : n \in 0..MaxCalls }

RECURSIVE ServerRun(_, _)
\* what is seen after each call of the sequence on the server: the value
\* Start returned (Stop returns nothing) and IsRunning()
ServerRun(srv, calls) ==
  IF calls = <<>> THEN <<>>
  ELSE LET c == Head(calls)
           r == IF c[1] = "start" THEN IPC_ServerStart(Ptr(srv), c[2])
                ELSE [server |-> IPC_ServerStop(Ptr(srv)), ret |-> "void"]
       IN <<[ret |-> r.ret, on |-> IsRunning(r.server)]>> \o ServerRun(r.server, Tail(calls))

RECURSIVE ClientRun(_, _)
\* the same for the client, Start read as Connect and Stop as Disconnect
ClientRun(cli, calls) ==
  IF calls = <<>> THEN <<>>
  ELSE LET c == Head(calls)
           r == IF c[1] = "start" THEN IPC_ClientConnect(Ptr(cli), c[2])
                ELSE [client |-> IPC_ClientDisconnect(Ptr(cli)), ret |-> "void"]
       IN <<[ret |-> r.ret, on |-> IsConnected(r.client)]>> \o ClientRun(r.client, Tail(calls))

\* C13: the same sequence of calls read as Start/Stop on a fresh server and
\* as Connect/Disconnect on a fresh client gives, after every step, the same
\* returned value and IsConnected() = IsRunning(); and from every reachable
\* server and client that agree, one more call keeps them in agreement.
C13_Mirror ==
  /\ \A calls \in CallSeqs :
       ServerRun(IPC_CreateServer, calls) = ClientRun(IPC_CreateClient, calls)
  /\ (server # NoObject /\ client # NoObject /\ IsConnected(client) = IsRunning(server))
       => \A c \in LifeCalls : ServerRun(server, <<c>>) = ClientRun(client, <<c>>)
  /\ (last.op = "client_connect" /\ ~last.null) => last.ret = IsConnected(client)

\* Connect was called on a client whose server has had Start called
C13_Witness ==
  /\ last.op = "client_connect" /\ ~last.null
  /\ server.m_pipeName # <<>>
  /\ client.m_pipeName = sPipe
  /\ last.ret = IsRunning(server)

\* C14: update() called on a server that Start has just started gets to its
\* pending requests: it runs on a started server, dispatches what is pending
\* and leaves nothing pending.
C14_UpdateDrains ==
  [][ (OnServer("server_start") /\ last'.op = "server_update" /\ ~last'.null)
        => (IsRunning(server) /\ last'.polled) ]_vars

\* a send_command call that reaches IPCClient::SendCommand
Sends(c) ==
  c.op = "client_send" /\ ~c.null /\ ~c.payload.null /\ ~c.responseNull /\ c.responseSize > 0

\* C15: a command sent by a client that Connect has just connected carries
\* the value of the client's counter, which starts at 1, as its request_id,
\* and the counter increases by exactly 1.
C15_RequestIds ==
  [][ (last.op = "client_connect" /\ ~last.null /\ Sends(last'))
        => /\ Len(last'.msgs) = 1
           /\ last'.msgs[1].requestId = client.m_nextRequestId
           /\ client'.m_nextRequestId = client.m_nextRequestId + 1 ]_vars

\* C16: send_command on a client that is not connected returns exactly
\* {"error":"Not connected"} and leaves the client unchanged: no request_id
\* is consumed.
C16_Calls ==
  /\ (client # NoObject /\ ~IsConnected(client)) =>
       \A k \in 1..Len(MessageType), q \in Payloads :
         LET r == SendCommand(client, MessageType[k], q)
         IN /\ r.ret = ErrNotConnected
            /\ r.client = client
            /\ r.msgs = <<>>
  /\ (Sends(last) /\ ~IsConnected(client)) =>
       /\ last.ret
       /\ last.msgs = <<>>
       /\ CStr(last.response)
            = Prefix(ErrNotConnected, Min(Len(ErrNotConnected), last.responseSize - 1))

C16_Steps ==
  (last'.op = "client_send" /\ client # NoObject /\ ~IsConnected(client))
    => client' = client

C16_NotConnected == []C16_Calls /\ [][C16_Steps]_vars

\* a command was sent, after a Connect call, with a response buffer that
\* holds the whole answer
C16_Witness ==
  /\ Sends(last)
  /\ client.m_pipeName # <<>>
  /\ ~IsConnected(client)
  /\ CStr(last.response) = ErrNotConnected
  /\ client.m_nextRequestId = 1

\* the pieces a text falls into when cut at every occurrence of a character
Pieces(t, sep) ==
  LET at == { i \in 1..Len(t) : t[i] = sep }
      n == Cardinality(at) + 1
      Nth(k) == CHOOSE i \in at : Cardinality({ j \in at : j < i }) = k - 1
      first(k) == IF k = 1 THEN 1 ELSE Nth(k - 1) + 1
      final(k) == IF k = n THEN Len(t) ELSE Nth(k) - 1
  IN [k \in 1..n |-> SubSeq(t, first(k), final(k))]

\* the elements of a JSON array of strings, as written; none for []
ArrayElements(t) ==
  IF Len(t) = 2 THEN <<>> ELSE Pieces(SubSeq(t, 2, Len(t) - 1), ",")

\* a text is a quoted string with no quote inside
IsQuoted(e) ==
  /\ Len(e) >= 2
  /\ e[1] = QUOTE /\ e[Len(e)] = QUOTE
  /\ \A i \in 2..(Len(e) - 1) : e[i] # QUOTE

Unquoted(e) == SubSeq(e, 2, Len(e) - 1)

\* a text is a JSON array holding each name of the set exactly once, quoted
\* and comma-separated, and nothing else
IsArrayOf(t, names) ==
  /\ Len(t) >= 2 /\ t[1] = "[" /\ t[Len(t)] = "]"
  /\ LET es == ArrayElements(t)
     IN /\ \A k \in 1..Len(es) : IsQuoted(es[k])
        /\ { Unquoted(es[k]) : k \in 1..Len(es) } = names
        /\ Len(es) = Cardinality(names)
  /\ (names = {}) => t = <<"[", "]">>

\* the message type is dispatched to the handler the constructor installed
DefaultHandles(type) ==
  server # NoObject /\ type \in DOMAIN server.m_handlers /\ server.m_handlers[type] = type

\* C17: the default GetTypes handler answers every payload, in every
\* registry state, with a JSON array holding each registered type name
\* exactly once as a quoted string, comma-separated, and nothing else; the
\* array is [] when no type is registered.
C17_GetTypesArray ==
  /\ \A q \in Payloads : IsArrayOf(GetTypesHandler(q), DOMAIN m_types)
  /\ (last.op = "handle_message" /\ last.msg.type = "GetTypes" /\ DefaultHandles("GetTypes"))
       => IsArrayOf(last.ret, DOMAIN m_types)

\* a GetTypes request was dispatched to the default handler with two types
\* registered
C17_Witness ==
  /\ last.op = "handle_message" /\ last.msg.type = "GetTypes"
  /\ DefaultHandles("GetTypes")
  /\ DOMAIN m_types = {sVolume, sTransform}
  /\ \E i \in 1..Len(last.ret) : last.ret[i] = ","

\* the text {"error":"Type not found"}
TypeNotFoundText ==
  <<"{", QUOTE, "e", "r", "r", "o", "r", QUOTE, ":", QUOTE, "T", "y", "p", "e", " ", "n", "o",
    "t", " ", "f", "o", "u", "n", "d", QUOTE, "}">>

\* a GetTypeInfo message was dispatched to the default handler
OnGetTypeInfo(c) ==
  c.op = "handle_message" /\ c.msg.type = "GetTypeInfo" /\ DefaultHandles("GetTypeInfo")

\* C18: the default GetTypeInfo handler, given {"typeName":"X"} for a name X
\* that is not registered, returns exactly {"error":"Type not found"}, and the
\* dispatch leaves the registry unchanged.
C18_Calls ==
  /\ \A n \in LookupNames :
       ~Registered(n) => GetTypeInfoHandler(Request(sTypeName, n)) = TypeNotFoundText
  /\ \A n \in LookupNames :
       (OnGetTypeInfo(last) /\ last.msg.payload = Request(sTypeName, n) /\ ~Registered(n))
         => last.ret = TypeNotFoundText

C18_Steps == last'.op = "handle_message" => m_types' = m_types

C18_TypeNotFound == []C18_Calls /\ [][C18_Steps]_vars

\* a request for a name that was never registered was dispatched while
\* another type is registered
C18_Witness ==
  /\ OnGetTypeInfo(last)
  /\ last.msg.payload = Request(sTypeName, sGone)
  /\ last.ret = TypeNotFoundText
  /\ Registered(sVolume)

\* no type name can be read out of the payload: nowhere in it is the text
\* ":" followed by a value that a later quote closes
Unparsable(q) ==
  ~ \E i \in 1..Len(q), j \in 1..Len(q) :
      /\ i + 2 <= Len(q)
      /\ SubSeq(q, i, i + 2) = <<QUOTE, ":", QUOTE>>
      /\ j >= i + 3
      /\ q[j] = QUOTE

\* the text starts as an error object: {"error":"
IsErrorObject(t) ==
  LET open == <<"{", QUOTE, "e", "r", "r", "o", "r", QUOTE, ":", QUOTE>>
  IN Len(t) >= Len(open) /\ SubSeq(t, 1, Len(open)) = open

\* C19: the default GetTypeInfo handler answers every payload from which no
\* type name can be parsed with an {"error":...} object, never with the
\* descriptor of a registered type.
C19_UnparsableIsError ==
  /\ \A q \in Payloads :
       (DefaultHandles("GetTypeInfo") /\ Unparsable(q)) =>
         /\ IsErrorObject(GetTypeInfoHandler(q))
         /\ \A n \in DOMAIN m_types : GetTypeInfoHandler(q) # TypeInfoText(m_types[n])
  /\ (OnGetTypeInfo(last) /\ Unparsable(last.msg.payload)) => IsErrorObject(last.ret)

\* the ordinal of a field kind
Ordinal(kind) ==
  CASE kind = "Bool" -> 0
    [] kind = "Int" -> 1
    [] kind = "Float" -> 2
    [] kind = "Double" -> 3
    [] kind = "String" -> 4
    [] kind = "Vector2" -> 5
    [] kind = "Vector3" -> 6
    [] kind = "Color" -> 7
    [] kind = "Custom" -> 8

RECURSIVE Joined(_)
\* texts written one after the other with a comma between them
Joined(texts) ==
  IF texts = <<>> THEN <<>>
  ELSE IF Len(texts) = 1 THEN texts[1]
  ELSE texts[1] \o <<",">> \o Joined(Tail(texts))

\* compact JSON: a string, a member, an object and an array
JsonString(t) == <<QUOTE>> \o t \o <<QUOTE>>

JsonMember(key, text) == JsonString(key) \o <<":">> \o text

JsonObject(members) == <<"{">> \o Joined(members) \o <<"}">>

JsonArray(elements) == <<"[">> \o Joined(elements) \o <<"]">>

sName == <<"n", "a", "m", "e">>

\* the object the claim describes for the type registered under name n
Described(n) ==
  LET t == m_types[n]
      entry(k) == JsonObject(<< JsonMember(sName, JsonString(t.m_fields[k].m_name)),
                                JsonMember(<<"t", "y", "p", "e">>,
                                           IntText(Ordinal(t.m_fields[k].m_type))) >>)
  IN JsonObject(<< JsonMember(sName, JsonString(n)),
                   JsonMember(<<"s", "i", "z", "e">>, IntText(t.m_size)),
                   JsonMember(<<"f", "i", "e", "l", "d", "s">>,
                              JsonArray([k \in 1..Len(t.m_fields) |-> entry(k)])) >>)

\* C20: the default GetTypeInfo handler, given {"typeName":"X"} for a
\* registered type X, returns one object with the members name = X, size =
\* the registered size and fields = an array with one {name, type} entry per
\* declared field in declaration order, type being the ordinal of the
\* field's kind (Bool = 0 .. Custom = 8).
C20_Descriptor ==
  /\ \A n \in DOMAIN m_types :
       GetTypeInfoHandler(Request(sTypeName, n)) = Described(n)
  /\ \A n \in DOMAIN m_types :
       (OnGetTypeInfo(last) /\ last.msg.payload = Request(sTypeName, n))
         => last.ret = Described(n)

\* the descriptor of a type with two fields of different kinds was asked for
C20_Witness ==
  /\ OnGetTypeInfo(last)
  /\ last.msg.payload = Request(sTypeName, sVolume)
  /\ Registered(sVolume)
  /\ Len(m_types[sVolume].m_fields) = 2
  /\ m_types[sVolume].m_fields[1].m_type # m_types[sVolume].m_fields[2].m_type
  /\ last.ret = Described(sVolume)

\* the handlers a caller or the constructor can register
HandlerNames == {"GetTypes", "GetTypeInfo", "Echo", "Empty"}

\* the message types as a set
MessageTypes == { MessageType[k] : k \in 1..Len(MessageType) }

\* C21: the table holds one handler per message type and registration is
\* last-wins: after register_handler(t, h) a message of type t is handled by
\* h, whatever was registered for t before (the defaults included), and the
\* messages of every other type are handled as before.
C21_Calls ==
  /\ DOMAIN server.m_handlers \subseteq MessageTypes
  /\ \A t \in DOMAIN server.m_handlers : server.m_handlers[t] \in HandlerNames
  /\ \A t \in MessageTypes, h1 \in HandlerNames, h2 \in HandlerNames :
       LET q == Request(sTypeName, host)
           once == RegisterHandler(server, t, h1)
           twice == RegisterHandler(once, t, h2)
       IN /\ HandleMessage(once, Message(t, q, 1)) = CallHandler(h1, q)
          /\ HandleMessage(twice, Message(t, q, 1)) = CallHandler(h2, q)
  /\ \A t \in MessageTypes, h \in {"Echo", "Empty"} :
       \A u \in MessageTypes \ {t} :
         LET q == Request(sTypeName, host)
         IN HandleMessage(RegisterHandler(server, t, h), Message(u, q, 1))
              = HandleMessage(server, Message(u, q, 1))
  /\ last.op = "register_handler" =>
       \A q \in CalledPayloads :
         HandleMessage(server, Message(last.type, q, 1)) = CallHandler(last.handler, q)

C21_Steps ==
  last'.op = "register_handler" =>
    /\ DOMAIN server'.m_handlers = DOMAIN server.m_handlers \cup {last'.type}
    /\ server'.m_handlers[last'.type] = last'.handler
    /\ \A u \in DOMAIN server.m_handlers \ {last'.type} :
         server'.m_handlers[u] = server.m_handlers[u]

C21_LastWins == []C21_Calls /\ [][C21_Steps]_vars

\* a GetTypes message was answered by the handler registered over the
\* default, while a type is registered that the default would have listed
C21_Witness ==
  /\ last.op = "handle_message" /\ last.msg.type = "GetTypes"
  /\ server.m_handlers["GetTypes"] = "Echo"
  /\ Registered(sVolume)
  /\ last.ret = last.msg.payload
  /\ last.ret # GetTypesHandler(last.msg.payload)

\* the buffer of a call made with buffer b = <<pointer, bufferSize>> holds
\* the result: the text up to the first terminator is the first
\* min(len, bufferSize - 1) characters of the result, that terminator lies
\* within the first bufferSize bytes, and the bytes from index bufferSize on
\* are as they were
HoldsResult(out, b, result) ==
  /\ CStr(out) = Prefix(result, Min(Len(result), b[2] - 1))
  /\ Len(CStr(out)) < b[2]
  /\ \A k \in (b[2] + 1)..Len(out) : out[k] = b[1].val[k]

\* what type_name, field_name and get_string have to deliver
TypeNameResult(i) ==
  IF i >= 0 /\ i < Cardinality(DOMAIN m_types) THEN Keys(m_types)[i + 1] ELSE <<>>

FieldNameResult(t, i) ==
  IF ~t.null /\ Registered(t.val) /\ i >= 0 /\ i < Len(m_types[t.val].m_fields)
  THEN m_types[t.val].m_fields[i + 1].m_name
  ELSE <<>>

StringResult(t, f) ==
  IF ~t.null /\ ~f.null /\ DeclaresAs(t.val, f.val, "String")
  THEN strs[m_types[t.val].m_fields[FirstNamed(t.val, f.val)].m_offset]
  ELSE <<>>

\* C22: type_name, field_name and get_string called with a non-null buffer
\* and bufferSize > 0 leave in the buffer, in every case (success, unknown
\* type or field, kind mismatch, index out of range, null type or field
\* name), a null-terminated string that is the first min(len, bufferSize-1)
\* characters of the result, and write no byte at index >= bufferSize.
C22_Buffers ==
  \A b \in WritableBuffers :
    /\ \A i \in -1..3 : HoldsResult(Reflection_GetTypeName(i, b[1], b[2]), b, TypeNameResult(i))
    /\ \A t \in TypeArgs, i \in -1..(MaxFields + 1) :
         HoldsResult(Reflection_GetFieldName(t, i, b[1], b[2]), b, FieldNameResult(t, i))
    /\ \A a \in AccessArgs :
         ~a[3].null =>
           HoldsResult(Reflection_GetStringValue(a[1], a[2], a[3], b[1], b[2]), b,
                       StringResult(a[1], a[2]))

\* a buffer with room for the longest type name
NameRoom == Room(sGameObject)

\* type_name(i) read into a buffer that holds every name whole
TypeNameAt(i) == CStr(Reflection_GetTypeName(i, Ptr(NameRoom), Len(NameRoom)))

\* C23: type_count() is the number of distinct registered names and the
\* indices 0 .. type_count()-1 give every registered name exactly once;
\* with exactly two types registered type_count() is 2 and type_name(0),
\* type_name(1) are the two names; the enumeration is the same on every call
\* while no register_type intervenes.
C23_Calls ==
  LET n == Reflection_GetTypeCount
  IN /\ n = Cardinality(DOMAIN m_types)
     /\ { TypeNameAt(i) : i \in 0..(n - 1) } = DOMAIN m_types
     /\ \A i \in 0..(n - 1), j \in 0..(n - 1) : i # j => TypeNameAt(i) # TypeNameAt(j)
     /\ Cardinality(DOMAIN m_types) = 2
          => (n = 2 /\ { TypeNameAt(0), TypeNameAt(1) } = DOMAIN m_types)
     /\ last.op = "type_count" => last.ret = Cardinality(DOMAIN m_types)
     /\ (last.op = "type_name" /\ ~last.bufNull /\ last.index >= 0 /\ last.index < n)
          => CStr(last.buffer)
               = Prefix(TypeNameAt(last.index),
                        Min(Len(TypeNameAt(last.index)), last.bufferSize - 1))

\* no step but register_type changes the registry, and a type_count or
\* type_name call repeated with the same arguments gives the same answer
C23_Steps ==
  /\ last'.op # "register_type" => m_types' = m_types
  /\ (last.op = "type_count" /\ last'.op = "type_count") => last'.ret = last.ret
  /\ (/\ last.op = "type_name" /\ last'.op = "type_name"
      /\ last'.index = last.index
      /\ last'.bufNull = last.bufNull /\ last'.bufferSize = last.bufferSize)
       => last'.buffer = last.buffer

C23_Enumeration == []C23_Calls /\ [][C23_Steps]_vars

\* type_name(0) was called with exactly two types registered and gave the
\* start of one name and not of the other
C23_Witness ==
  /\ last.op = "type_name" /\ ~last.bufNull /\ last.bufferSize = BufLen
  /\ last.index = 0
  /\ Cardinality(DOMAIN m_types) = 2
  /\ CStr(last.buffer) = Prefix(TypeNameAt(0), BufLen - 1)
  /\ CStr(last.buffer) # Prefix(TypeNameAt(1), BufLen - 1)

\* C24: in every type of the registry the field names are pairwise
\* distinct: no chain of field additions followed by register_type leaves a
\* registered type with two fields of the same name.
C24_UniqueFieldNames ==
  \A n \in DOMAIN m_types :
    \A i \in 1..Len(m_types[n].m_fields), j \in 1..Len(m_types[n].m_fields) :
      i # j => m_types[n].m_fields[i].m_name # m_types[n].m_fields[j].m_name

\* ---------------------------------------------------------------------- C25
\* The JSON texts handed to the deserializer: a serialized object, an empty
\* object, a text that is not JSON, none.
JsonArgs ==
  { Ptr(SerializeObject(host, LiveInstance)), Ptr(<<"{", "}">>), Ptr(<<"{">>), NullPtr }

ObjectArgs ==
  { <<t, i>> : t \in { Ptr(n) : n \in {host, sGone} } \cup {NullPtr},
               i \in {LiveInstance, NullInstance} }

PathArgs == { Ptr(p) : p \in Paths } \cup {NullPtr}

C25_Calls ==
  /\ \A o \in ObjectArgs, json \in JsonArgs :
       LET r == Serialization_FromJson(o[1], o[2], json)
       IN r.ret = FALSE => r.instance = o[2]
  /\ \A o \in ObjectArgs, filePath \in PathArgs :
       LET r == Serialization_LoadFromFile(o[1], o[2], filePath)
       IN r.ret = FALSE => r.instance = o[2]

C25_Steps ==
  (last'.op \in {"from_json", "load_from_file"} /\ last'.ret = FALSE)
    => /\ mem' = mem
       /\ strs' = strs
       /\ \A f \in Decls(host) :
            Reflection_GetFloatValue(Ptr(host), Ptr(f.name), LiveInstance)' =
              Reflection_GetFloatValue(Ptr(host), Ptr(f.name), LiveInstance)

\* C25: a deserialize (from a text or from a file) that returns false leaves
\* every field of the instance with the value it had before the call.
C25_AllOrNothing == []C25_Calls /\ [][C25_Steps]_vars

\* a registered Point with fields was handed to the deserializer with a text,
\* the call failed and the instance is as it was
C25_Witness ==
  /\ last.op = "from_json"
  /\ ~last.nameNull /\ ~last.instNull /\ ~last.jsonNull
  /\ last.typeName = host
  /\ Registered(host)
  /\ Len(m_types[host].m_fields) > 0
  /\ last.ret = FALSE
  /\ LiveInstance = last.before

\* ---------------------------------------------------------------------- C26
\* the file at p can be opened for writing
CanOpenForWriting(p) == files[p].writable

C26_Calls ==
  \A o \in ObjectArgs, p \in Paths :
    (~o[1].null /\ ~o[2].null) =>
      LET r == Serialization_SaveToFile(o[1], o[2], Ptr(p))
      IN /\ r.ret = FALSE <=> ~CanOpenForWriting(p)
         /\ r.ret = TRUE =>
              /\ r.files[p].exists
              /\ r.files[p].content = SerializeObject(o[1].val, o[2])
              /\ \A q \in Paths \ {p} : r.files[q] = files[q]
         /\ r.ret = FALSE => r.files = files

C26_Steps ==
  (last'.op = "save_to_file" /\ ~last'.nameNull /\ ~last'.instNull /\ ~last'.pathNull)
    => /\ last'.ret = FALSE <=> ~CanOpenForWriting(last'.filePath)
       /\ last'.ret = TRUE =>
            files'[last'.filePath].content = SerializeObject(last'.typeName, LiveInstance)
       /\ last'.ret = FALSE => files' = files

\* C26: with non-null arguments save_to_file returns false exactly when the
\* file cannot be opened for writing; after true the file holds exactly the
\* serialized object, after false the file is as it was.
C26_SaveToFile == []C26_Calls /\ [][C26_Steps]_vars

\* a registered Point was saved over the old save file
C26_Witness ==
  /\ last.op = "save_to_file"
  /\ last.ret = TRUE
  /\ ~last.nameNull
  /\ last.typeName = host
  /\ Registered(host)
  /\ last.before[sSavePath].content = sOldSave
  /\ files[sSavePath].content = SerializeObject(host, LiveInstance)
  /\ Len(files[sSavePath].content) > Len(sOldSave)

\* ---------------------------------------------------------------------- C27
\* The buffers handed to Serialization_ToJson for the object o
JsonBufferArgs(o) ==
  CalledJsonBuffers(o)
    \cup { <<Ptr(Garbage), n>> : n \in -1..BufLen }
    \cup { <<NullPtr, BufLen>> }

C27_Calls ==
  /\ \A o \in ObjectArgs :
       \A b \in JsonBufferArgs(o) :
         LET r == Serialization_ToJson(o[1], o[2], b[1], b[2])
             json == SerializeObject(o[1].val, o[2])
             fits == /\ ~o[1].null /\ ~o[2].null /\ ~b[1].null
                     /\ b[2] > 0
                     /\ Len(json) < b[2]
         IN IF fits
            THEN /\ CStr(r.buffer) = json
                 /\ r.ret = Len(json)
            ELSE /\ r.ret = -1
                 /\ r.buffer = b[1].val
  /\ last.op = "to_json" =>
       IF last.ret = -1 THEN last.buffer = last.before
       ELSE /\ Len(CStr(last.buffer)) = last.ret
            /\ last.ret < last.bufferSize

\* C27: Serialization_ToJson returns the length of the JSON text and writes
\* all of it, terminated, when it fits; in every other case it returns -1 and
\* leaves the buffer as it was.
C27_ToJson == []C27_Calls

\* a registered Point was written into a buffer it just fits
C27_Witness ==
  /\ last.op = "to_json"
  /\ ~last.nameNull
  /\ last.typeName = host
  /\ Registered(host)
  /\ last.ret > BufLen
  /\ last.bufferSize = last.ret + 1
  /\ CStr(last.buffer) = SerializeObject(host, LiveInstance)

\* ---------------------------------------------------------------------- C28
\* sizeof(T) for the T of a kind
Width(kind) ==
  CASE kind = "Float" -> 4 [] kind = "Int" -> 4 [] kind = "Bool" -> 1
    [] kind = "Double" -> 8 [] kind = "Vector2" -> 8 [] kind = "String" -> 32

\* the bytes of the instance that are the storage of field f
Storage(f) == f.m_offset .. (f.m_offset + Width(f.m_type) - 1)

\* the value of field f in an instance of these bytes and strings
ValueAt(f, bytes, ss) ==
  IF f.m_type = "String" THEN <<ss[f.m_offset]>>
  ELSE [k \in 1..Width(f.m_type) |-> bytes[f.m_offset + k - 1]]

SetterKind(op) ==
  CASE op = "set_float" -> "Float" [] op = "set_int" -> "Int"
    [] op = "set_bool" -> "Bool" [] op = "set_string" -> "String"

Setters == {"set_float", "set_int", "set_bool", "set_string"}

Readers == {"get_float", "get_int", "get_bool", "get_string", "serialize"}

C28_Steps ==
  /\ last'.op \in Setters =>
       /\ m_types' = m_types
       /\ Valid(last', SetterKind(last'.op)) =>
            LET n == last'.typeName.val
                f == m_types[n].m_fields[FirstNamed(n, last'.fieldName.val)]
            IN /\ \A a \in DOMAIN mem \ Storage(f) : mem'[a] = mem[a]
               /\ \A o \in DOMAIN strs \ {f.m_offset} : strs'[o] = strs[o]
               /\ \A k \in 1..Len(m_types[n].m_fields) :
                    LET g == m_types[n].m_fields[k]
                    IN Storage(g) \cap Storage(f) = {}
                         => ValueAt(g, mem', strs') = ValueAt(g, mem, strs)
  /\ last'.op \in Readers =>
       /\ m_types' = m_types
       /\ mem' = mem
       /\ strs' = strs

\* C28: a successful typed setter on field f changes only the storage of f:
\* every registered field that does not overlap f keeps its value and the
\* registry is unchanged; getters and serialize change nothing.
C28_SetterFrame == [][C28_Steps]_vars

\* x of a Point registered with x and y was set to a new value and y still
\* holds its own
C28_Witness ==
  /\ last.op = "set_float"
  /\ host = sPoint
  /\ Valid(last, "Float")
  /\ last.fieldName.val = <<"x">>
  /\ DeclaresAs(sPoint, <<"y">>, "Float")
  /\ last.arg = F20
  /\ [k \in 1..4 |-> mem[k - 1]] = F20
  /\ [k \in 1..4 |-> mem[k + 3]] = F20
  /\ Reflection_GetFloatValue(Ptr(sPoint), Ptr(<<"y">>), LiveInstance) = F20

\* ---------------------------------------------------------------------- C29
\* The messages a dispatch is examined on: types with and without a default
\* handler, with requests of every shape and with the error object itself.
DispatchArgs ==
  { Message(t, q, 1) : t \in {"GetTypes", "GetTypeInfo", "SetProperty", "Error"},
                       q \in CalledPayloads \cup {ErrUnknownMessageType} }

DefaultTypes == {"GetTypes", "GetTypeInfo"}

HasHandler(srv, type) == type \in DOMAIN srv.m_handlers

\* a fresh server handles exactly the default types, and a server never
\* loses a handler
C29_Handlers ==
  /\ DOMAIN IPCServer.m_handlers = DefaultTypes
  /\ DOMAIN IPC_CreateServer.m_handlers = DefaultTypes
  /\ server # NoObject => DefaultTypes \subseteq DOMAIN server.m_handlers

C29_Steps ==
  (server # NoObject /\ server' # NoObject)
    => DOMAIN server.m_handlers \subseteq DOMAIN server'.m_handlers

\* C29 as stated: dispatch returns what the registered handler produces, and
\* the error object {"error":"Unknown message type"} exactly when the type
\* has no handler; a fresh server handles exactly GetTypes and GetTypeInfo
\* and keeps them.
C29_AsStated ==
  /\ C29_Handlers
  /\ server # NoObject =>
       \A msg \in DispatchArgs :
         /\ HasHandler(server, msg.type) =>
              HandleMessage(server, msg) = CallHandler(server.m_handlers[msg.type], msg.payload)
         /\ HandleMessage(server, msg) = ErrUnknownMessageType <=> ~HasHandler(server, msg.type)
  /\ last.op = "handle_message" =>
       (last.ret = ErrUnknownMessageType <=> ~HasHandler(server, last.msg.type))

C29_Calls ==
  /\ C29_Handlers
  /\ server # NoObject =>
       \A msg \in DispatchArgs :
         /\ HasHandler(server, msg.type) =>
              HandleMessage(server, msg) = CallHandler(server.m_handlers[msg.type], msg.payload)
         /\ ~HasHandler(server, msg.type) => HandleMessage(server, msg) = ErrUnknownMessageType
         /\ (HasHandler(server, msg.type) /\ HandleMessage(server, msg) = ErrUnknownMessageType)
              => server.m_handlers[msg.type] \notin DefaultTypes
  /\ last.op = "handle_message" =>
       /\ ~HasHandler(server, last.msg.type) => last.ret = ErrUnknownMessageType
       /\ (HasHandler(server, last.msg.type) /\ last.ret = ErrUnknownMessageType)
            => server.m_handlers[last.msg.type] \notin DefaultTypes

\* C29: dispatch returns what the registered handler produces, whatever it
\* is, and the error object {"error":"Unknown message type"} whenever the type
\* has no handler; the default handlers never produce that object, so only a
\* handler registered by the caller can return it for a handled type.  A fresh
\* server handles exactly GetTypes and GetTypeInfo, and a server never loses
\* a handler.
C29_Dispatch == []C29_Calls /\ [][C29_Steps]_vars

\* a SetProperty message carrying the error object was dispatched to a handler
\* the caller registered, which answered with its payload, while a type
\* without a handler is still answered with the same object
C29_Witness ==
  /\ last.op = "handle_message"
  /\ last.msg.type = "SetProperty"
  /\ HasHandler(server, "SetProperty")
  /\ server.m_handlers["SetProperty"] = "Echo"
  /\ last.msg.payload = ErrUnknownMessageType
  /\ last.ret = ErrUnknownMessageType
  /\ ~HasHandler(server, "Error")
  /\ HandleMessage(server, Message("Error", EmptyRequest, 1)) = ErrUnknownMessageType

\* ---------------------------------------------------------------------- C30
\* the positions (from 1) at which the three characters ":" start in q
Markers(q) == { i \in 1..(Len(q) - 2) : SubSeq(q, i, i + 2) = <<QUOTE, ":", QUOTE>> }

\* The characters between the first ":" of q and the next double quote: the
\* set holding that text, empty when q has no ":" or no quote after it.
NamedIn(q) ==
  IF Markers(q) = {} THEN {}
  ELSE LET first == CHOOSE i \in Markers(q) : \A o \in Markers(q) : i <= o
           closing == { j \in (first + 3)..Len(q) : q[j] = QUOTE }
       IN IF closing = {} THEN {}
          ELSE { SubSeq(q, first + 3, (CHOOSE j \in closing : \A o \in closing : j <= o) - 1) }

\* the request {"<key>":"<name>","<key2>":"<name2>"}
TwoMembers(key, name, key2, name2) ==
  <<"{", QUOTE>> \o key \o <<QUOTE, ":", QUOTE>> \o name \o <<QUOTE, ",", QUOTE>>
    \o key2 \o <<QUOTE, ":", QUOTE>> \o name2 \o <<QUOTE, "}">>

NamingPayloads ==
  Payloads \cup { TwoMembers(<<"o">>, n, sTypeName, sGone) : n \in LookupNames }

C30_Calls ==
  /\ \A q \in NamingPayloads :
       \A n \in NamedIn(q) :
         /\ GetTypeInfoHandler(q) = GetTypeInfoHandler(Request(sTypeName, n))
         /\ GetTypeInfoHandler(q) = GetTypeInfoHandler(Request(<<"o">>, n))
         /\ GetTypeInfoHandler(q) = IF Registered(n) THEN Described(n) ELSE TypeNotFoundText
  /\ OnGetTypeInfo(last) =>
       \A n \in NamedIn(last.msg.payload) :
         last.ret = GetTypeInfoHandler(Request(sTypeName, n))

\* C30: the default GetTypeInfo handler answers for the characters between
\* the first ":" of the payload and the next double quote, whatever the key
\* of the member is: payloads that agree on those characters, such as
\* {"typeName":"X"} and {"other":"X"}, get the same response.
C30_KeyIgnored == []C30_Calls

\* a request naming Transform under another key was dispatched and answered
\* as the request with the key typeName is
C30_Witness ==
  /\ OnGetTypeInfo(last)
  /\ last.msg.payload = Request(<<"o">>, sTransform)
  /\ Registered(sTransform)
  /\ last.ret = Described(sTransform)
  /\ last.ret = GetTypeInfoHandler(Request(sTypeName, sTransform))

=============================================================================
